---- MODULE Spec2Model ----
(***************************************************************************)
(* Model of the launcher's message loop (src/src/gui.rs): the release      *)
(* catalog's channel stores, the installed registry, the in-flight install *)
(* list, the availability probe, the per-package state machine and the     *)
(* install pipeline that feeds it.                                         *)
(*                                                                         *)
(* One action is one call of Gui::update for one Message (or the           *)
(* completion of one future started by Command::perform).  Futures         *)
(* complete in any order, so the messages still to be delivered form a bag.*)
(***************************************************************************)
EXTENDS Integers, Sequences, FiniteSets, Bags, TLC

VARIABLES
    releases,    \* Gui.releases: the five channel stores and the installed registry
    installing,  \* Gui.installing: Vec<(Package, usize)>
    settings,    \* SETTINGS: the keep_only_latest_* flags and default_package
    commands,    \* messages of Command::perform futures not yet handled (a bag)
    probes,      \* check_availability futures whose HTTP request is in flight (a bag)
    pipelines,   \* the Install::package subscription streams, by package name
    disk,        \* names of the packages whose installation directory exists
    msgboxes,    \* the notices shown with msgbox::create
    calls,       \* the calls made by the last PackageInstalled handler, in order
    clicks,      \* how many times the user pressed an Install button
    failures,    \* how many probe requests failed without a response
    fault,       \* "none", or the panic that ended the process
    fetches,     \* refresh futures holding the stores taken from the catalog (a bag)
    remote,      \* the listing each channel's server offers
    presses,     \* how many times the user pressed another button or toggle
    sort_by,     \* Controls.sort_by, saved as SETTINGS.sort_by
    filters      \* Controls.filters, saved as SETTINGS.filters

vars == <<releases, installing, settings, commands, probes, pipelines, disk,
          msgboxes, calls, clicks, failures, fault, fetches, remote, presses, sort_by,
          filters>>

----------------------------------------------------------------------------
(* Bounds of the model. *)

\* The user presses Install at most MaxClicks times in one run.
MaxClicks == 2

\* Progress values reported by the pipeline are 0 .. MaxProgress.
MaxProgress == 1

\* With the refresh, settings, uninstall and default buttons at hand, the user
\* presses at most MaxPresses buttons in one run, Install included.
MaxPresses == 2

----------------------------------------------------------------------------
(* Packages. *)

Channels == <<"daily", "branched", "stable", "lts", "archived">>

ChannelSet == {Channels[i] : i \in 1..Len(Channels)}

\* Build: Daily(subtype), Branched(name), Stable, Lts, Archived.
BuildDailyA == [kind |-> "Daily", sub |-> "a"]
BuildBranchedX == [kind |-> "Branched", sub |-> "x"]
BuildStable == [kind |-> "Stable", sub |-> ""]
BuildLts == [kind |-> "Lts", sub |-> ""]
BuildArchived == [kind |-> "Archived", sub |-> ""]

\* PackageState without its button states.
Fetched == [tag |-> "Fetched", progress |-> 0]
Downloading(p) == [tag |-> "Downloading", progress |-> p]
Extracting(p) == [tag |-> "Extracting", progress |-> p]
Installed == [tag |-> "Installed", progress |-> 0]
Errored == [tag |-> "Errored", progress |-> 0]

Pkg(n, b, d) ==
    [name |-> n, build |-> b, date |-> d, status |-> "Old", state |-> Fetched]

\* The remote packages: an older and a newer build of each build line.
Universe ==
    [daily    |-> <<Pkg("d1", BuildDailyA, 1), Pkg("d2", BuildDailyA, 2)>>,
     branched |-> <<Pkg("b1", BuildBranchedX, 1), Pkg("b2", BuildBranchedX, 2)>>,
     stable   |-> <<Pkg("s1", BuildStable, 1), Pkg("s2", BuildStable, 2)>>,
     lts      |-> <<Pkg("l1", BuildLts, 1), Pkg("l2", BuildLts, 2)>>,
     archived |-> <<Pkg("a1", BuildArchived, 1), Pkg("a2", BuildArchived, 2)>>]

\* The channel store a build belongs to (the match on package.build).
ChannelOf(build) ==
    CASE build.kind = "Daily" -> "daily"
      [] build.kind = "Branched" -> "branched"
      [] build.kind = "Stable" -> "stable"
      [] build.kind = "Lts" -> "lts"
      [] build.kind = "Archived" -> "archived"

\* PkgEq comparing every field, state and status included.
PkgEqAllFields(a, b) == a = b

\* Package equality: the identity fields, not status or state.
PkgEq(a, b) == a.name = b.name /\ a.build = b.build /\ a.date = b.date

\* The packages as the views and by-index lookups chain them.
Chain(r) == r.daily \o r.branched \o r.stable \o r.lts \o r.archived

Range(s) == {s[i] : i \in 1..Len(s)}

Names(s) == [i \in 1..Len(s) |-> s[i].name]

\* Vec::remove(index), index counted from 1 here.
\* RemoveAt with the index taken one too far.
RemoveAfter(s, i) == SubSeq(s, 1, i) \o SubSeq(s, i + 2, Len(s))

RemoveAt(s, i) == SubSeq(s, 1, i - 1) \o SubSeq(s, i + 1, Len(s))

\* iter().position(|a| *a == package): 0 when there is none, else the first.
Position(s, package) ==
    IF \E i \in 1..Len(s) : PkgEq(s[i], package)
    THEN CHOOSE i \in 1..Len(s) :
            /\ PkgEq(s[i], package)
            /\ \A j \in 1..(i - 1) : ~PkgEq(s[j], package)
    ELSE 0

----------------------------------------------------------------------------
(* The catalog operations Gui::update calls on self.releases. *)

\* Whether the installed registry holds an older package of q's build line.
HasOlderInstalled(q, installed) ==
    \E i \in 1..Len(installed) :
        installed[i].build = q.build /\ installed[i].date < q.date

\* SyncStatus tagging Update only a package not tagged so before.
SyncStatusFlips(q, installed) ==
    IF HasOlderInstalled(q, installed) /\ q.status # "Update" THEN "Update"
    ELSE IF q.status = "New" THEN "New" ELSE "Old"

\* The status tag sync() gives a package of a channel store.
SyncStatus(q, installed) ==
    IF HasOlderInstalled(q, installed) THEN "Update"
    ELSE IF q.status = "New" THEN "New" ELSE "Old"

SyncStore(store, installed) ==
    [i \in 1..Len(store) |-> [store[i] EXCEPT !.status = SyncStatus(store[i], installed)]]

\* Releases::sync(): the status tags of every channel store, recomputed
\* against the installed registry.
Sync(r) ==
    [r EXCEPT !.daily = SyncStore(r.daily, r.installed),
              !.branched = SyncStore(r.branched, r.installed),
              !.stable = SyncStore(r.stable, r.installed),
              !.lts = SyncStore(r.lts, r.installed),
              !.archived = SyncStore(r.archived, r.installed)]

IsOnDisk(d, p) == p.name \in d

\* Installed::fetch(): the registry rescanned from the installation
\* directories; every entry carries state Installed.
InstalledFetch(d) ==
    LET all == Chain(Universe)
        found == SelectSeq(all, LAMBDA p : IsOnDisk(d, p))
    IN  [i \in 1..Len(found) |-> [found[i] EXCEPT !.state = Installed]]

\* Installed::update_default(): a default package that is no longer in the
\* registry is cleared.
UpdateDefault(default, installed) ==
    IF default # "none" /\ ~\E i \in 1..Len(installed) : installed[i].name = default
    THEN "none"
    ELSE default

\* Releases::sync() on the settings: the default package is read and, when
\* it is not in the installed registry, invalidated.
SyncDefault(s, r) == [s EXCEPT !.default_package = UpdateDefault(@, r.installed)]

\* The keep_only_latest_* setting of a build's channel; Archived has none.
KeepOnlyLatest(s, build) ==
    CASE build.kind = "Daily" -> s.keep_only_latest_daily
      [] build.kind = "Branched" -> s.keep_only_latest_branched
      [] build.kind = "Stable" -> s.keep_only_latest_stable
      [] build.kind = "Lts" -> s.keep_only_latest_lts
      [] build.kind = "Archived" -> FALSE

\* Installed::remove_old_packages(): in every build line whose channel keeps
\* only the latest, the names of the installed packages that a newer
\* installed package of the same build line supersedes.
OldPackages(s, installed) ==
    {installed[i].name : i \in
        {i \in 1..Len(installed) :
            /\ KeepOnlyLatest(s, installed[i].build)
            /\ \E j \in 1..Len(installed) :
                  /\ installed[j].build = installed[i].build
                  /\ installed[j].date > installed[i].date}}

RemoveOldPackages(s, installed) ==
    SelectSeq(installed, LAMBDA p : p.name \notin OldPackages(s, installed))

----------------------------------------------------------------------------
(* Messages and futures. *)

Msg(t, p) ==
    [type |-> t, package |-> p, available |-> FALSE, for_install |-> FALSE, http |-> 0]

\* The HTTP status codes a probed server answers with.
StatusCodes == {200, 301, 404, 503}

\* is_server_error in the place of is_client_error.
IsServerError(code) == 500 <= code /\ code <= 599

\* reqwest's StatusCode::is_client_error.
IsClientError(code) == 400 <= code /\ code <= 499

\* Gui::check_availability, given the response's status:
\* (true_if_available, true_if_for_install, package).
CheckAvailabilityResult(for_install, package, code) ==
    [Msg("CheckAvailability", package) EXCEPT
        !.available = ~IsClientError(code),
        !.for_install = for_install,
        !.http = code]

Probe(for_install, package) == [for_install |-> for_install, package |-> package]

Send(m) == commands (+) SetToBag({m})

Take(m) == commands (-) SetToBag({m})

Pending(t) == {m \in BagToSet(commands) : m.type = t}

----------------------------------------------------------------------------
(* The install pipeline: one subscription stream per package in flight. *)

NoPipeline == [ev |-> "none", progress |-> 0, index |-> 0, running |-> FALSE]

PackageNames == {p.name : p \in Range(Chain(Universe))}

Progresses == 0..MaxProgress

Event(e, p) == [ev |-> e, progress |-> p]

\* The events a stream may emit after the event it emitted last.
NextEvents(pl) ==
    CASE pl.ev = "none" -> {Event("Started", 0)}
      [] pl.ev = "Started" ->
            {Event("DownloadProgress", p) : p \in Progresses}
            \cup {Event("FinishedDownloading", 0), Event("Errored", 0)}
      [] pl.ev = "DownloadProgress" ->
            {Event("DownloadProgress", p) : p \in {q \in Progresses : q >= pl.progress}}
            \cup {Event("FinishedDownloading", 0), Event("Errored", 0)}
      [] pl.ev = "FinishedDownloading" ->
            {Event("ExtractionProgress", p) : p \in Progresses}
            \cup {Event("FinishedExtracting", 0), Event("Errored", 0)}
      [] pl.ev = "ExtractionProgress" ->
            {Event("ExtractionProgress", p) : p \in {q \in Progresses : q >= pl.progress}}
            \cup {Event("FinishedExtracting", 0), Event("Errored", 0)}
      [] pl.ev = "FinishedExtracting" ->
            {Event("FinishedInstalling", 0), Event("Errored", 0)}
      [] OTHER -> {}

\* Gui::subscription: a stream runs for every package of the in-flight list.
\* A stream already running for a package is kept, one whose package left the
\* list is dropped, and a package new to the list gets a stream that carries
\* the index of its entry.
Subscription(ing, pls) ==
    [n \in PackageNames |->
        IF \E k \in 1..Len(ing) : ing[k].package.name = n
        THEN IF pls[n].running THEN pls[n]
             ELSE [NoPipeline EXCEPT
                     !.running = TRUE,
                     !.index = ing[CHOOSE k \in 1..Len(ing) :
                                     /\ ing[k].package.name = n
                                     /\ \A j \in 1..(k - 1) : ing[j].package.name # n].index]
        ELSE NoPipeline]

----------------------------------------------------------------------------
(* The filters of the package list. *)

\* impl Default for Filters.
FiltersDefault ==
    [updates |-> FALSE, installed |-> FALSE, all |-> TRUE, daily |-> TRUE,
     branched |-> TRUE, lts |-> TRUE, stable |-> TRUE, archived |-> TRUE]

----------------------------------------------------------------------------
(* Initial state: Gui::new. *)

GatedChannels == {"daily", "branched", "stable", "lts"}

\* The settings file read at startup: the keep_only_latest_* flag of one
\* channel is on and the others are off, or the reverse.
FlagSettings(channel, on) ==
    [keep_only_latest_daily |-> (channel = "daily") = on,
     keep_only_latest_branched |-> (channel = "branched") = on,
     keep_only_latest_stable |-> (channel = "stable") = on,
     keep_only_latest_lts |-> (channel = "lts") = on,
     update_daily |-> TRUE,
     update_branched |-> TRUE,
     update_stable |-> TRUE,
     update_lts |-> TRUE,
     default_package |-> "none"]

\* The stores read at startup hold the two builds of one build line and, next
\* to a line that is not the archived one, the older archived build.
Catalog(channel) ==
    [c \in ChannelSet |->
        IF c = channel THEN Universe[c]
        ELSE IF c = "archived" THEN <<Universe.archived[1]>>
        ELSE <<>>]

\* What is installed at startup: the archived build that accompanies a build
\* line, and nothing when the stores hold the archived line alone.
InitDisk(channel) == IF channel = "archived" THEN {} ELSE {"a1"}

\* The store as loaded at startup: installed packages show as Installed.
LoadStore(store, d) ==
    [i \in 1..Len(store) |->
        IF IsOnDisk(d, store[i]) THEN [store[i] EXCEPT !.state = Installed] ELSE store[i]]

LoadReleases(channel, d) ==
    Sync([daily |-> LoadStore(Catalog(channel).daily, d),
          branched |-> LoadStore(Catalog(channel).branched, d),
          stable |-> LoadStore(Catalog(channel).stable, d),
          lts |-> LoadStore(Catalog(channel).lts, d),
          archived |-> LoadStore(Catalog(channel).archived, d),
          installed |-> InstalledFetch(d)])

Init ==
    /\ \E channel \in ChannelSet :
          /\ disk = InitDisk(channel)
          /\ releases = LoadReleases(channel, disk)
          /\ remote = Catalog(channel)
          /\ settings \in {FlagSettings(channel, on) : on \in BOOLEAN}
    /\ installing = <<>>
    /\ commands = EmptyBag
    /\ probes = EmptyBag
    /\ pipelines = [n \in PackageNames |-> NoPipeline]
    /\ msgboxes = {}
    /\ calls = <<>>
    /\ clicks = 0
    /\ failures = 0
    /\ fault = "none"
    /\ sort_by = "VersionDescending"
    /\ filters = FiltersDefault
    /\ fetches = EmptyBag
    /\ presses = 0

----------------------------------------------------------------------------
(* Package::update. *)

\* PackageUpdate with FinishedDownloading moving the package to Extracting.
PackageUpdateEager(package, e) ==
    CASE e.ev = "Started" -> [package EXCEPT !.state = Downloading(0)]
      [] e.ev = "DownloadProgress" -> [package EXCEPT !.state = Downloading(e.progress)]
      [] e.ev = "FinishedDownloading" -> [package EXCEPT !.state = Extracting(0)]
      [] e.ev = "ExtractionProgress" -> [package EXCEPT !.state = Extracting(e.progress)]
      [] e.ev = "FinishedExtracting" -> package
      [] e.ev = "FinishedInstalling" -> [package EXCEPT !.state = Installed]
      [] e.ev = "Errored" -> [package EXCEPT !.state = Errored]

\* PackageMessage::InstallationProgress(progress): the package afterwards.
PackageUpdate(package, e) ==
    CASE e.ev = "Started" -> [package EXCEPT !.state = Downloading(0)]
      [] e.ev = "DownloadProgress" -> [package EXCEPT !.state = Downloading(e.progress)]
      [] e.ev = "FinishedDownloading" -> package
      [] e.ev = "ExtractionProgress" -> [package EXCEPT !.state = Extracting(e.progress)]
      [] e.ev = "FinishedExtracting" -> package
      [] e.ev = "FinishedInstalling" -> [package EXCEPT !.state = Installed]
      [] e.ev = "Errored" -> [package EXCEPT !.state = Errored]

\* The command Package::update returns for an installation event.
PackageUpdateCommand(package, e) ==
    IF e.ev = "FinishedInstalling"
    THEN SetToBag({Msg("PackageInstalled", PackageUpdate(package, e))})
    ELSE EmptyBag

\* The catalog with the package at position index (from 0) of the chained
\* stores replaced.
SetChain(r, index, package) ==
    LET i == index + 1
        d == Len(r.daily)
        b == d + Len(r.branched)
        s == b + Len(r.stable)
        l == s + Len(r.lts)
    IN  IF i <= d THEN [r EXCEPT !.daily[i] = package]
        ELSE IF i <= b THEN [r EXCEPT !.branched[i - d] = package]
        ELSE IF i <= s THEN [r EXCEPT !.stable[i - b] = package]
        ELSE IF i <= l THEN [r EXCEPT !.lts[i - s] = package]
        ELSE [r EXCEPT !.archived[i - l] = package]

----------------------------------------------------------------------------
(* Gui::update, one action per message. *)

\* The user presses the Install button of the package at position i of the
\* package list: Message::PackageMessage(index, PackageMessage::Install).  The
\* button is shown only while the package is Fetched.
PressInstall(i) ==
    /\ UNCHANGED <<sort_by, filters>>
    /\ fault = "none"
    /\ clicks < MaxClicks
    /\ i \in 1..Len(Chain(releases))
    /\ Chain(releases)[i].state.tag = "Fetched"
    /\ clicks' = clicks + 1
    /\ commands' = Send(Msg("TryToInstall", Chain(releases)[i]))
    /\ UNCHANGED <<fetches, remote, presses, releases, installing, settings, probes, pipelines, disk,
                   msgboxes, calls, failures, fault>>

HasInstalledBuild(installed, package) ==
    \E i \in 1..Len(installed) : installed[i].build = package.build

\* GateMessage with an installed package of the same kind of build counting,
\* whatever its subtype or branch.
GateMessageAnySubtype(s, installed, package) ==
    IF /\ KeepOnlyLatest(s, package.build)
       /\ package.status # "Update"
       /\ \E i \in 1..Len(installed) : installed[i].build.kind = package.build.kind
    THEN CASE package.build.kind = "Daily" -> "daily package of its build type"
           [] package.build.kind = "Branched" -> "branched package of its build type"
           [] package.build.kind = "Stable" -> "stable package"
           [] package.build.kind = "Lts" -> "LTS package"
    ELSE ""

\* GateMessage with every arm reading keep_only_latest_stable.
GateMessageStableFlag(s, installed, package) ==
    IF /\ package.build.kind # "Archived"
       /\ s.keep_only_latest_stable
       /\ package.status # "Update"
       /\ HasInstalledBuild(installed, package)
    THEN CASE package.build.kind = "Daily" -> "daily package of its build type"
           [] package.build.kind = "Branched" -> "branched package of its build type"
           [] package.build.kind = "Stable" -> "stable package"
           [] package.build.kind = "Lts" -> "LTS package"
    ELSE ""

\* GateMessage with the Archived arm gated like the Stable one.
GateMessageArchivedGated(s, installed, package) ==
    IF /\ (\/ package.build.kind = "Daily" /\ s.keep_only_latest_daily
           \/ package.build.kind = "Branched" /\ s.keep_only_latest_branched
           \/ package.build.kind \in {"Stable", "Archived"} /\ s.keep_only_latest_stable
           \/ package.build.kind = "Lts" /\ s.keep_only_latest_lts)
       /\ package.status # "Update"
       /\ HasInstalledBuild(installed, package)
    THEN CASE package.build.kind = "Daily" -> "daily package of its build type"
           [] package.build.kind = "Branched" -> "branched package of its build type"
           [] package.build.kind \in {"Stable", "Archived"} -> "stable package"
           [] package.build.kind = "Lts" -> "LTS package"
    ELSE ""

\* The reason Message::TryToInstall refuses the package with, "" for none.
GateMessage(s, installed, package) ==
    CASE package.build.kind = "Daily" ->
            IF /\ s.keep_only_latest_daily
               /\ package.status # "Update"
               /\ HasInstalledBuild(installed, package)
            THEN "daily package of its build type" ELSE ""
      [] package.build.kind = "Branched" ->
            IF /\ s.keep_only_latest_branched
               /\ package.status # "Update"
               /\ HasInstalledBuild(installed, package)
            THEN "branched package of its build type" ELSE ""
      [] package.build.kind = "Stable" ->
            IF /\ s.keep_only_latest_stable
               /\ package.status # "Update"
               /\ HasInstalledBuild(installed, package)
            THEN "stable package" ELSE ""
      [] package.build.kind = "Lts" ->
            IF /\ s.keep_only_latest_lts
               /\ package.status # "Update"
               /\ HasInstalledBuild(installed, package)
            THEN "LTS package" ELSE ""
      [] package.build.kind = "Archived" -> ""

CantInstall(package, message) ==
    [notice |-> "cant_install", package |-> package.name, reason |-> message]

NoLongerAvailable(package) ==
    [notice |-> "no_longer_available", package |-> package.name, reason |-> ""]

\* Message::TryToInstall(package).
TryToInstall(m) ==
    /\ UNCHANGED <<sort_by, filters>>
    /\ fault = "none"
    /\ m \in Pending("TryToInstall")
    /\ LET message == GateMessage(settings, releases.installed, m.package)
       IN  IF message = ""
           THEN /\ probes' = probes (+) SetToBag({Probe(TRUE, m.package)})
                /\ msgboxes' = msgboxes
           ELSE /\ probes' = probes
                /\ msgboxes' = msgboxes \cup {CantInstall(m.package, message)}
    /\ commands' = Take(m)
    /\ UNCHANGED <<fetches, remote, presses, releases, installing, settings, pipelines, disk, calls,
                   clicks, failures, fault>>

\* ProbeConnectionFailure with the failure reported as (false, for_install,
\* package) in the place of the panic.
ProbeConnectionFailureUnavailable(pr, abort) ==
    /\ UNCHANGED <<sort_by, filters>>
    /\ fault = "none"
    /\ BagIn(pr, probes)
    /\ abort \in BOOLEAN
    /\ probes' = probes (-) SetToBag({pr})
    /\ failures' = failures + 1
    /\ commands' = Send([Msg("CheckAvailability", pr.package) EXCEPT
                            !.for_install = pr.for_install])
    /\ UNCHANGED <<fetches, remote, presses, releases, installing, settings, pipelines, disk, msgboxes,
                   calls, clicks, fault>>

\* The request fails without a response: check_availability panics.  The
\* future is lost; whether the panic also ends the process depends on the
\* build's panic strategy.
ProbeConnectionFailure(pr, abort) ==
    /\ UNCHANGED <<sort_by, filters>>
    /\ fault = "none"
    /\ BagIn(pr, probes)
    /\ abort \in BOOLEAN
    /\ probes' = probes (-) SetToBag({pr})
    /\ failures' = failures + 1
    /\ fault' = IF abort THEN "Failed to connect to server" ELSE fault
    /\ UNCHANGED <<fetches, remote, presses, releases, installing, settings, commands, pipelines, disk,
                   msgboxes, calls, clicks>>

\* The probed server answers with a status code: check_availability returns
\* its tuple, to be delivered as Message::CheckAvailability.
ProbeResponse(pr, code) ==
    /\ UNCHANGED <<sort_by, filters>>
    /\ fault = "none"
    /\ BagIn(pr, probes)
    /\ code \in StatusCodes
    /\ probes' = probes (-) SetToBag({pr})
    /\ commands' = Send(CheckAvailabilityResult(pr.for_install, pr.package, code))
    /\ UNCHANGED <<fetches, remote, presses, releases, installing, settings, pipelines, disk, msgboxes,
                   calls, clicks, failures, fault>>

\* CheckAvailability with the notice raised whatever the probe was made for.
CheckAvailabilityAlwaysNotice(m) ==
    /\ UNCHANGED <<sort_by, filters>>
    /\ fault = "none"
    /\ m \in Pending("CheckAvailability")
    /\ IF m.available
       THEN IF m.for_install
            THEN /\ commands' = Take(m) (+) SetToBag({Msg("InstallPackage", m.package)})
                 /\ UNCHANGED <<releases, settings, msgboxes, fault>>
            ELSE /\ commands' = Take(m)
                 /\ releases' = Sync(releases)
                 /\ settings' = SyncDefault(settings, releases')
                 /\ UNCHANGED <<msgboxes, fault>>
       ELSE LET channel == ChannelOf(m.package.build)
                index == Position(releases[channel], m.package)
            IN  IF index = 0
                THEN /\ fault' = "called Option::unwrap() on a None value"
                     /\ UNCHANGED <<releases, settings, commands, msgboxes>>
                ELSE /\ releases' =
                          Sync([releases EXCEPT ![channel] = RemoveAt(@, index)])
                     /\ settings' = SyncDefault(settings, releases')
                     /\ msgboxes' = msgboxes \cup {NoLongerAvailable(m.package)}
                     /\ commands' = Take(m)
                     /\ UNCHANGED fault
    /\ UNCHANGED <<fetches, remote, presses, installing, probes, pipelines, disk, calls, clicks,
                   failures>>

\* Message::CheckAvailability((available, for_install, package)).
CheckAvailability(m) ==
    /\ UNCHANGED <<sort_by, filters>>
    /\ fault = "none"
    /\ m \in Pending("CheckAvailability")
    /\ IF m.available
       THEN IF m.for_install
            THEN /\ commands' = Take(m) (+) SetToBag({Msg("InstallPackage", m.package)})
                 /\ UNCHANGED <<releases, settings, msgboxes, fault>>
            ELSE /\ commands' = Take(m)
                 /\ releases' = Sync(releases)
                 /\ settings' = SyncDefault(settings, releases')
                 /\ UNCHANGED <<msgboxes, fault>>
       ELSE LET channel == ChannelOf(m.package.build)
                index == Position(releases[channel], m.package)
            IN  IF index = 0
                THEN \* position(..).unwrap() on None
                     /\ fault' = "called Option::unwrap() on a None value"
                     /\ UNCHANGED <<releases, settings, commands, msgboxes>>
                ELSE /\ releases' =
                          Sync([releases EXCEPT ![channel] = RemoveAt(@, index)])
                     /\ settings' = SyncDefault(settings, releases')
                     /\ msgboxes' =
                          IF m.for_install
                          THEN msgboxes \cup {NoLongerAvailable(m.package)}
                          ELSE msgboxes
                     /\ commands' = Take(m)
                     /\ UNCHANGED fault
    /\ UNCHANGED <<fetches, remote, presses, installing, probes, pipelines, disk, calls, clicks,
                   failures>>

\* Message::InstallPackage(package).
InstallPackage(m) ==
    /\ UNCHANGED <<sort_by, filters>>
    /\ fault = "none"
    /\ m \in Pending("InstallPackage")
    /\ LET index == Position(Chain(releases), m.package)
       IN  IF index = 0
           THEN \* find(..).unwrap() on None
                /\ fault' = "called Option::unwrap() on a None value"
                /\ UNCHANGED <<installing, commands, pipelines>>
           ELSE /\ installing' =
                      Append(installing,
                             [package |-> Chain(releases)[index], index |-> index - 1])
                /\ pipelines' = Subscription(installing', pipelines)
                /\ commands' = Take(m)
                /\ UNCHANGED fault
    /\ UNCHANGED <<fetches, remote, presses, releases, settings, probes, disk, msgboxes, calls, clicks,
                   failures>>

\* The first entry of the in-flight list for the package, 0 for none.
InstallingPosition(ing, package) ==
    IF \E k \in 1..Len(ing) : PkgEq(ing[k].package, package)
    THEN CHOOSE k \in 1..Len(ing) :
            /\ PkgEq(ing[k].package, package)
            /\ \A j \in 1..(k - 1) : ~PkgEq(ing[j].package, package)
    ELSE 0

\* PackageInstalledCalls without the pruning.
PackageInstalledCallsKeepOld ==
    <<"installing.remove", "installed.fetch", "installed.update_default", "releases.sync">>

\* PackageInstalledCalls with the pruning ahead of the rescan.
PackageInstalledCallsPruneFirst ==
    <<"installing.remove", "installed.remove_old_packages", "installed.fetch",
      "installed.update_default", "releases.sync">>

\* The calls Message::PackageInstalled makes, in order.
PackageInstalledCalls ==
    <<"installing.remove", "installed.fetch", "installed.update_default",
      "installed.remove_old_packages", "releases.sync">>

\* One call of the handler, on the parts of the state the calls work on.
Call(call, st, package) ==
    CASE call = "installing.remove" ->
            [st EXCEPT !.installing = RemoveAt(@, InstallingPosition(@, package))]
      [] call = "installed.fetch" ->
            [st EXCEPT !.releases.installed = InstalledFetch(st.disk)]
      [] call = "installed.update_default" ->
            [st EXCEPT !.settings.default_package =
                            UpdateDefault(@, st.releases.installed)]
      [] call = "installed.remove_old_packages" ->
            [st EXCEPT !.releases.installed = RemoveOldPackages(st.settings, @),
                       !.disk = @ \ OldPackages(st.settings, st.releases.installed)]
      [] call = "releases.sync" ->
            [st EXCEPT !.releases = Sync(@),
                       !.settings = SyncDefault(@, st.releases)]

RECURSIVE RunCalls(_, _, _)
RunCalls(cs, st, package) ==
    IF cs = <<>> THEN st
    ELSE RunCalls(Tail(cs), Call(Head(cs), st, package), package)

\* Message::PackageInstalled(package).
PackageInstalled(m) ==
    /\ UNCHANGED <<sort_by, filters>>
    /\ fault = "none"
    /\ m \in Pending("PackageInstalled")
    /\ IF InstallingPosition(installing, m.package) = 0
       THEN \* find(..).unwrap() on None
            /\ fault' = "called Option::unwrap() on a None value"
            /\ UNCHANGED <<releases, installing, settings, commands, pipelines,
                           disk, calls>>
       ELSE LET st == RunCalls(PackageInstalledCalls,
                               [installing |-> installing, releases |-> releases,
                                settings |-> settings, disk |-> disk],
                               m.package)
            IN  /\ installing' = st.installing
                /\ releases' = st.releases
                /\ settings' = st.settings
                /\ disk' = st.disk
                /\ pipelines' = Subscription(installing', pipelines)
                /\ calls' = PackageInstalledCalls
                /\ commands' = Take(m)
                /\ UNCHANGED fault
    /\ UNCHANGED <<fetches, remote, presses, probes, msgboxes, clicks, failures>>

\* The stream of package n emits event e, which is delivered as
\* Message::PackageMessage(index, InstallationProgress(e)) with the index the
\* stream was created with.  Finalizing creates the installation directory.
PackageMessage(n, e) ==
    /\ UNCHANGED <<sort_by, filters>>
    /\ fault = "none"
    /\ pipelines[n].running
    /\ e \in NextEvents(pipelines[n])
    /\ LET index == pipelines[n].index
           chain == Chain(releases)
       IN  /\ pipelines' = [pipelines EXCEPT ![n].ev = e.ev, ![n].progress = e.progress]
           /\ disk' = IF e.ev = "FinishedInstalling" THEN disk \cup {n} ELSE disk
           /\ IF index >= Len(chain)
              THEN \* unreachable!("Index out of bounds")
                   /\ fault' = "Index out of bounds"
                   /\ UNCHANGED <<releases, commands>>
              ELSE /\ releases' =
                        SetChain(releases, index, PackageUpdate(chain[index + 1], e))
                   /\ commands' = commands (+) PackageUpdateCommand(chain[index + 1], e)
                   /\ UNCHANGED fault
    /\ UNCHANGED <<fetches, remote, presses, installing, settings, probes, msgboxes, calls, clicks, failures>>

Next ==
    \/ \E i \in 1..Len(Chain(Universe)) : PressInstall(i)
    \/ \E m \in BagToSet(commands) : TryToInstall(m)
    \/ \E pr \in BagToSet(probes), abort \in BOOLEAN : ProbeConnectionFailure(pr, abort)
    \/ \E pr \in BagToSet(probes), code \in StatusCodes : ProbeResponse(pr, code)
    \/ \E m \in BagToSet(commands) : CheckAvailability(m)
    \/ \E m \in BagToSet(commands) : InstallPackage(m)
    \/ \E m \in BagToSet(commands) : PackageInstalled(m)
    \/ \E n \in PackageNames, e \in {Event(ev, p) : ev \in
            {"Started", "DownloadProgress", "FinishedDownloading",
             "ExtractionProgress", "FinishedExtracting", "FinishedInstalling",
             "Errored"}, p \in Progresses} : PackageMessage(n, e)

Spec == Init /\ [][Next]_vars

\* The events of Next's last disjunct.
Events ==
    {Event(ev, p) : ev \in {"Started", "DownloadProgress", "FinishedDownloading",
                            "ExtractionProgress", "FinishedExtracting",
                            "FinishedInstalling", "Errored"}, p \in Progresses}

\* Fair scheduling: a message in flight is delivered by the runtime, and a
\* running stream goes on emitting events.
Fairness ==
    /\ WF_vars(\E m \in BagToSet(commands) : TryToInstall(m))
    /\ WF_vars(\E m \in BagToSet(commands) : CheckAvailability(m))
    /\ WF_vars(\E m \in BagToSet(commands) : InstallPackage(m))
    /\ WF_vars(\E m \in BagToSet(commands) : PackageInstalled(m))
    /\ \A n \in PackageNames : WF_vars(\E e \in Events : PackageMessage(n, e))

SpecLive == Spec /\ Fairness

----------------------------------------------------------------------------
(* Update counts. *)

\* Option<usize>: None is the empty sequence, Some(n) holds n.
None == <<>>

Some(n) == <<n>>

\* How many packages of a store are tagged Update.
UpdateCount(store) == Cardinality({i \in 1..Len(store) : store[i].status = "Update"})

\* CountUpdates with the total taken over every channel, enabled or not.
CountUpdatesAllChannels(s, r) ==
    LET daily == IF s.update_daily THEN Some(UpdateCount(r.daily)) ELSE None
        branched == IF s.update_branched THEN Some(UpdateCount(r.branched)) ELSE None
        stable == IF s.update_stable THEN Some(UpdateCount(r.stable)) ELSE None
        lts == IF s.update_lts THEN Some(UpdateCount(r.lts)) ELSE None
        total == IF daily = None /\ branched = None /\ stable = None /\ lts = None
                 THEN None
                 ELSE Some(UpdateCount(r.daily) + UpdateCount(r.branched)
                           + UpdateCount(r.stable) + UpdateCount(r.lts))
    IN  <<total, daily, branched, stable, lts>>

\* Releases::count_updates(): (total, daily, branched, stable, lts).
CountUpdates(s, r) ==
    LET daily == IF s.update_daily THEN Some(UpdateCount(r.daily)) ELSE None
        branched == IF s.update_branched THEN Some(UpdateCount(r.branched)) ELSE None
        stable == IF s.update_stable THEN Some(UpdateCount(r.stable)) ELSE None
        lts == IF s.update_lts THEN Some(UpdateCount(r.lts)) ELSE None
        Value(o) == IF o = None THEN 0 ELSE o[1]
        total == IF daily = None /\ branched = None /\ stable = None /\ lts = None
                 THEN None
                 ELSE Some(Value(daily) + Value(branched) + Value(stable) + Value(lts))
    IN  <<total, daily, branched, stable, lts>>

\* Gui::title: the window title, as the count shown and the noun used for it.
Title(s, r) ==
    LET total == CountUpdates(s, r)[1]
    IN  IF total = None THEN [count |-> None, noun |-> ""]
        ELSE [count |-> total, noun |-> IF total[1] = 1 THEN "update" ELSE "updates"]

----------------------------------------------------------------------------
(* Refresh: the stores are taken out of the catalog, handed to a future that
   merges the remote listing into them, and put back by the result message. *)

\* The refresh requests: one per channel, FetchAll and CheckForUpdates.
RefreshKinds == ChannelSet \cup {"all", "updates"}

\* TakenBy with CheckForUpdates taking the archived store as well.
TakenByArchivedToo(kind) ==
    IF kind = "all" \/ kind = "updates" THEN ChannelSet ELSE {kind}

\* The channel stores a refresh takes out of the catalog.
TakenBy(kind) ==
    IF kind = "all" THEN ChannelSet
    ELSE IF kind = "updates" THEN GatedChannels
    ELSE {kind}

\* Whether a store holds a package equal to the given one.
Contains(store, package) == \E i \in 1..Len(store) : PkgEq(store[i], package)

\* MergeStatus with New taking precedence over Update.
MergeStatusNewFirst(q, store, installed) ==
    IF ~Contains(store, q) THEN "New"
    ELSE IF HasOlderInstalled(q, installed) THEN "Update"
    ELSE "Old"

\* The status a refresh gives a package: Update when an older build of its
\* line is installed, New when the package was not in the store, else Old.
MergeStatus(q, store, installed) ==
    IF HasOlderInstalled(q, installed) THEN "Update"
    ELSE IF ~Contains(store, q) THEN "New"
    ELSE "Old"

\* Releases::check_<channel>_updates: the store with the listing's packages
\* it did not hold appended, every package tagged.
CheckUpdates(store, listing, installed) ==
    LET new == SelectSeq(listing, LAMBDA q : ~Contains(store, q))
        merged == store \o new
    IN  [i \in 1..Len(merged) |->
            [merged[i] EXCEPT !.status = MergeStatus(merged[i], store, installed)]]

\* A refresh future: the stores it holds, and whether its fetch has returned.
Fetch(kind, stores, done) == [kind |-> kind, stores |-> stores, done |-> done]

\* take() on the stores of a refresh: what the future gets, what the catalog keeps.
TakeStores(r, kind) ==
    [c \in ChannelSet |-> IF c \in TakenBy(kind) THEN r[c] ELSE <<>>]

LeaveStores(r, kind) ==
    [c \in DOMAIN r |-> IF c \in TakenBy(kind) THEN <<>> ELSE r[c]]

\* Releases::add_new_packages: the returned stores merged into the catalog,
\* then sync().
AddNewPackages(r, stores) ==
    Sync([c \in DOMAIN r |->
            IF c \in GatedChannels
            THEN r[c] \o SelectSeq(stores[c], LAMBDA q : ~Contains(r[c], q))
            ELSE r[c]])

\* The user works with the channels whose server lists a build: whether one
\* of the given channels is such a channel.
Listed(channels) == \E c \in channels : remote[c] # <<>>

\* Message::Fetch<channel>, FetchAll or CheckForUpdates: the stores are taken
\* and handed to the future.
FetchStores(kind) ==
    /\ UNCHANGED <<sort_by, filters>>
    /\ fault = "none"
    /\ clicks + presses < MaxPresses
    /\ kind \in RefreshKinds
    /\ Listed(TakenBy(kind))
    /\ presses' = presses + 1
    /\ fetches' = fetches (+) SetToBag({Fetch(kind, TakeStores(releases, kind), FALSE)})
    /\ releases' = LeaveStores(releases, kind)
    /\ UNCHANGED <<installing, settings, commands, probes, pipelines, disk, msgboxes,
                   calls, clicks, failures, fault, remote>>

\* Gui::check_<channel>, check_all or check_for_updates returns: every store
\* the future holds has the channel's listing merged in.
FetchReturns(f) ==
    /\ UNCHANGED <<sort_by, filters>>
    /\ fault = "none"
    /\ BagIn(f, fetches)
    /\ ~f.done
    /\ LET stores == [c \in ChannelSet |->
                        IF c \in TakenBy(f.kind)
                        THEN CheckUpdates(f.stores[c], remote[c], InstalledFetch(disk))
                        ELSE <<>>]
       IN  fetches' = (fetches (-) SetToBag({f})) (+) SetToBag({Fetch(f.kind, stores, TRUE)})
    /\ UNCHANGED <<releases, installing, settings, commands, probes, pipelines, disk,
                   msgboxes, calls, clicks, failures, fault, remote, presses>>

\* StoresFetched with the returned stores appended to the catalog's.
StoresFetchedAppends(f) ==
    /\ UNCHANGED <<sort_by, filters>>
    /\ fault = "none"
    /\ BagIn(f, fetches)
    /\ f.done
    /\ fetches' = fetches (-) SetToBag({f})
    /\ releases' =
          IF f.kind = "updates" THEN AddNewPackages(releases, f.stores)
          ELSE [c \in DOMAIN releases |->
                   IF c \in TakenBy(f.kind) THEN releases[c] \o f.stores[c] ELSE releases[c]]
    /\ settings' = IF f.kind = "updates" THEN SyncDefault(settings, releases') ELSE settings
    /\ UNCHANGED <<installing, commands, probes, pipelines, disk, msgboxes,
                   calls, clicks, failures, fault, remote, presses>>

\* Message::<channel>Fetched and AllFetched put the returned stores in the
\* catalog; Message::UpdatesChecked calls add_new_packages.
StoresFetched(f) ==
    /\ UNCHANGED <<sort_by, filters>>
    /\ fault = "none"
    /\ BagIn(f, fetches)
    /\ f.done
    /\ fetches' = fetches (-) SetToBag({f})
    /\ releases' =
          IF f.kind = "updates" THEN AddNewPackages(releases, f.stores)
          ELSE [c \in DOMAIN releases |->
                   IF c \in TakenBy(f.kind) THEN f.stores[c] ELSE releases[c]]
    /\ settings' = IF f.kind = "updates" THEN SyncDefault(settings, releases') ELSE settings
    /\ UNCHANGED <<installing, commands, probes, pipelines, disk, msgboxes,
                   calls, clicks, failures, fault, remote, presses>>

----------------------------------------------------------------------------
(* Settings. *)

Choices == {"Enable", "Disable"}

\* The settings with the keep_only_latest_* flag of a channel set.
SetKeepOnlyLatest(s, channel, on) ==
    CASE channel = "daily" -> [s EXCEPT !.keep_only_latest_daily = on]
      [] channel = "branched" -> [s EXCEPT !.keep_only_latest_branched = on]
      [] channel = "stable" -> [s EXCEPT !.keep_only_latest_stable = on]
      [] channel = "lts" -> [s EXCEPT !.keep_only_latest_lts = on]

\* The settings with the update_* flag of a channel set.
SetUpdate(s, channel, on) ==
    CASE channel = "daily" -> [s EXCEPT !.update_daily = on]
      [] channel = "branched" -> [s EXCEPT !.update_branched = on]
      [] channel = "stable" -> [s EXCEPT !.update_stable = on]
      [] channel = "lts" -> [s EXCEPT !.update_lts = on]

\* KeepOnlyLatestChanged with pruning run when the flag is enabled.
KeepOnlyLatestChangedPrunes(channel, choice) ==
    /\ UNCHANGED <<sort_by, filters>>
    /\ fault = "none"
    /\ clicks + presses < MaxPresses
    /\ channel \in GatedChannels
    /\ Listed({channel})
    /\ choice \in Choices
    /\ presses' = presses + 1
    /\ settings' = SetKeepOnlyLatest(settings, channel, choice = "Enable")
    /\ releases' = [releases EXCEPT !.installed = RemoveOldPackages(settings', @)]
    /\ disk' = disk \ OldPackages(settings', releases.installed)
    /\ UNCHANGED <<installing, commands, probes, pipelines, msgboxes,
                   calls, clicks, failures, fault, fetches, remote>>

\* Message::KeepOnlyLatest<channel>(choice).
KeepOnlyLatestChanged(channel, choice) ==
    /\ UNCHANGED <<sort_by, filters>>
    /\ fault = "none"
    /\ clicks + presses < MaxPresses
    /\ channel \in GatedChannels
    /\ Listed({channel})
    /\ choice \in Choices
    /\ presses' = presses + 1
    /\ settings' = SetKeepOnlyLatest(settings, channel, choice = "Enable")
    /\ UNCHANGED <<releases, installing, commands, probes, pipelines, disk, msgboxes,
                   calls, clicks, failures, fault, fetches, remote>>

\* Message::Update<channel>(choice).
UpdateChanged(channel, choice) ==
    /\ UNCHANGED <<sort_by, filters>>
    /\ fault = "none"
    /\ clicks + presses < MaxPresses
    /\ channel \in GatedChannels
    /\ Listed({channel})
    /\ choice \in Choices
    /\ presses' = presses + 1
    /\ releases' = Sync(releases)
    /\ settings' = SyncDefault(SetUpdate(settings, channel, choice = "Enable"), releases')
    /\ UNCHANGED <<installing, commands, probes, pipelines, disk, msgboxes,
                   calls, clicks, failures, fault, fetches, remote>>

----------------------------------------------------------------------------
(* Uninstall and the default package. *)

\* The user presses Uninstall on the package at position i of the package
\* list: Package::update / PackageMessage::Remove deletes the installation
\* and sends Message::PackageRemoved.  The button is shown while the package
\* is Installed.
PressRemove(i) ==
    /\ UNCHANGED <<sort_by, filters>>
    /\ fault = "none"
    /\ clicks + presses < MaxPresses
    /\ i \in 1..Len(Chain(releases))
    /\ Chain(releases)[i].state.tag = "Installed"
    /\ presses' = presses + 1
    /\ disk' = disk \ {Chain(releases)[i].name}
    /\ commands' = Send(Msg("PackageRemoved", Chain(releases)[i]))
    /\ UNCHANGED <<releases, installing, settings, probes, pipelines, msgboxes,
                   calls, clicks, failures, fault, fetches, remote>>

\* PackageRemoved with the default package cleared whatever it is.
PackageRemovedClearsDefault(m) ==
    /\ UNCHANGED <<sort_by, filters>>
    /\ fault = "none"
    /\ m \in Pending("PackageRemoved")
    /\ settings' = [settings EXCEPT !.default_package = "none"]
    /\ probes' = probes (+) SetToBag({Probe(FALSE, m.package)})
    /\ commands' = Take(m)
    /\ UNCHANGED <<releases, installing, pipelines, disk, msgboxes, calls, clicks,
                   failures, fault, fetches, remote, presses>>

\* PackageRemoved with the default package left as it is.
PackageRemovedKeepsDefault(m) ==
    /\ UNCHANGED <<sort_by, filters>>
    /\ fault = "none"
    /\ m \in Pending("PackageRemoved")
    /\ probes' = probes (+) SetToBag({Probe(FALSE, m.package)})
    /\ commands' = Take(m)
    /\ UNCHANGED <<releases, installing, settings, pipelines, disk, msgboxes, calls, clicks,
                   failures, fault, fetches, remote, presses>>

\* Message::PackageRemoved(package).
PackageRemoved(m) ==
    /\ UNCHANGED <<sort_by, filters>>
    /\ fault = "none"
    /\ m \in Pending("PackageRemoved")
    /\ settings' = IF settings.default_package = m.package.name
                   THEN [settings EXCEPT !.default_package = "none"]
                   ELSE settings
    /\ probes' = probes (+) SetToBag({Probe(FALSE, m.package)})
    /\ commands' = Take(m)
    /\ UNCHANGED <<releases, installing, pipelines, disk, msgboxes, calls, clicks,
                   failures, fault, fetches, remote, presses>>

\* The user presses Set or Unset on the package at position i:
\* Package::update / PackageMessage::SetDefault, UnsetDefault.  The button is
\* shown while the package is Installed, as Unset on the default package.
PressDefault(i) ==
    /\ UNCHANGED <<sort_by, filters>>
    /\ fault = "none"
    /\ clicks + presses < MaxPresses
    /\ i \in 1..Len(Chain(releases))
    /\ Chain(releases)[i].state.tag = "Installed"
    /\ presses' = presses + 1
    /\ settings' = [settings EXCEPT !.default_package =
                        IF @ = Chain(releases)[i].name THEN "none"
                        ELSE Chain(releases)[i].name]
    /\ UNCHANGED <<releases, installing, commands, probes, pipelines, disk, msgboxes,
                   calls, clicks, failures, fault, fetches, remote>>

----------------------------------------------------------------------------
(* The launcher with refresh and settings. *)

\* The stores at startup hold the older build of the line; the newer one is
\* on the server only.  Neither build, the older one or both are installed.
KnownCatalog(channel) ==
    [c \in ChannelSet |-> IF Catalog(channel)[c] = <<>> THEN <<>> ELSE <<Catalog(channel)[c][1]>>]

KnownDisks(channel) ==
    {InitDisk(channel),
     InitDisk(channel) \cup {Universe[channel][1].name},
     InitDisk(channel) \cup {Universe[channel][1].name, Universe[channel][2].name}}

KnownReleases(channel, d) ==
    Sync([daily |-> LoadStore(KnownCatalog(channel).daily, d),
          branched |-> LoadStore(KnownCatalog(channel).branched, d),
          stable |-> LoadStore(KnownCatalog(channel).stable, d),
          lts |-> LoadStore(KnownCatalog(channel).lts, d),
          archived |-> LoadStore(KnownCatalog(channel).archived, d),
          installed |-> InstalledFetch(d)])

InitCatalog ==
    /\ \E channel \in ChannelSet :
          /\ disk \in KnownDisks(channel)
          /\ releases = KnownReleases(channel, disk)
          /\ remote = Catalog(channel)
          /\ settings \in {FlagSettings(channel, on) : on \in BOOLEAN}
    /\ installing = <<>>
    /\ commands = EmptyBag
    /\ probes = EmptyBag
    /\ pipelines = [n \in PackageNames |-> NoPipeline]
    /\ msgboxes = {}
    /\ calls = <<>>
    /\ clicks = 0
    /\ failures = 0
    /\ fault = "none"
    /\ sort_by = "VersionDescending"
    /\ filters = FiltersDefault
    /\ fetches = EmptyBag
    /\ presses = 0

\* A step of the launcher as modelled by Next, an Install press within the
\* user's budget.
InstallStep == Next /\ (clicks' # clicks => clicks + presses < MaxPresses)

NextCatalog ==
    \/ InstallStep
    \/ \E kind \in RefreshKinds : FetchStores(kind)
    \/ \E f \in BagToSet(fetches) : FetchReturns(f)
    \/ \E f \in BagToSet(fetches) : StoresFetched(f)
    \/ \E channel \in GatedChannels, choice \in Choices : KeepOnlyLatestChanged(channel, choice)
    \/ \E channel \in GatedChannels, choice \in Choices : UpdateChanged(channel, choice)

SpecCatalog == InitCatalog /\ [][NextCatalog]_vars

\* The launcher with install, uninstall and the default package.
NextUninstall ==
    \/ InstallStep
    \/ \E i \in 1..Len(Chain(Universe)) : PressRemove(i)
    \/ \E m \in BagToSet(commands) : PackageRemoved(m)
    \/ \E i \in 1..Len(Chain(Universe)) : PressDefault(i)

SpecUninstall == InitCatalog /\ [][NextUninstall]_vars

----------------------------------------------------------------------------
(* sync() and count_updates() on drawn catalogs: the stores hold both builds
   of every line under any one tag, any of the older builds are installed and
   any of the update_* flags are set; the Update<channel> handlers call sync. *)

StatusSet == {"New", "Update", "Old"}

\* A store with every package given one tag.
Tagged(store, status) == [i \in 1..Len(store) |-> [store[i] EXCEPT !.status = status]]

SyncDisks == SUBSET {Universe[c][1].name : c \in GatedChannels}

SyncSettings ==
    {[FlagSettings("archived", TRUE) EXCEPT
         !.update_daily = flags[1], !.update_branched = flags[2],
         !.update_stable = flags[3], !.update_lts = flags[4]] :
     flags \in [1..4 -> BOOLEAN]}

DrawnReleases(status, d) ==
    [daily |-> Tagged(LoadStore(Universe.daily, d), status),
     branched |-> Tagged(LoadStore(Universe.branched, d), status),
     stable |-> Tagged(LoadStore(Universe.stable, d), status),
     lts |-> Tagged(LoadStore(Universe.lts, d), status),
     archived |-> Tagged(LoadStore(Universe.archived, d), status),
     installed |-> InstalledFetch(d)]

InitSync ==
    /\ disk \in SyncDisks
    /\ \E status \in StatusSet : releases = DrawnReleases(status, disk)
    /\ settings \in SyncSettings
    /\ remote = [c \in ChannelSet |-> Universe[c]]
    /\ installing = <<>>
    /\ commands = EmptyBag
    /\ probes = EmptyBag
    /\ pipelines = [n \in PackageNames |-> NoPipeline]
    /\ msgboxes = {}
    /\ calls = <<>>
    /\ clicks = 0
    /\ failures = 0
    /\ fault = "none"
    /\ sort_by = "VersionDescending"
    /\ filters = FiltersDefault
    /\ fetches = EmptyBag
    /\ presses = 0

NextSync == \E channel \in GatedChannels, choice \in Choices : UpdateChanged(channel, choice)

SpecSync == InitSync /\ [][NextSync]_vars

----------------------------------------------------------------------------
(* Sorting of the package list.  Strings are sequences of characters here,   *)
(* so that the comparisons can be computed character by character.           *)

SortBys ==
    {"NameAscending", "NameDescending", "DateAscending", "DateDescending",
     "VersionAscending", "VersionDescending"}

\* The code points of the characters that occur.
CodePoint ==
    (" " :> 32) @@ ("." :> 46) @@ ("0" :> 48) @@ ("1" :> 49) @@ ("2" :> 50)
    @@ ("9" :> 57) @@ ("A" :> 65) @@ ("B" :> 66) @@ ("a" :> 97) @@ ("b" :> 98)

\* char::to_lowercase, char::is_whitespace, char::to_digit(10).
ToLowercase(c) == IF c = "A" THEN "a" ELSE IF c = "B" THEN "b" ELSE c

IsWhitespace(c) == c = " "

IsDigit(c) == 48 <= CodePoint[c] /\ CodePoint[c] <= 57

ToDigit(c) == CodePoint[c] - 48

\* Ord::cmp on integers, and Ordering::reverse.
Cmp(a, b) == IF a < b THEN "Less" ELSE IF a > b THEN "Greater" ELSE "Equal"

Reverse(o) == IF o = "Less" THEN "Greater" ELSE IF o = "Greater" THEN "Less" ELSE o

\* Ord::cmp on strings: by code point, a proper prefix first.
RECURSIVE StrCmp(_, _)
StrCmp(l, r) ==
    IF l = <<>> /\ r = <<>> THEN "Equal"
    ELSE IF l = <<>> THEN "Less"
    ELSE IF r = <<>> THEN "Greater"
    ELSE IF CodePoint[Head(l)] # CodePoint[Head(r)]
         THEN Cmp(CodePoint[Head(l)], CodePoint[Head(r)])
    ELSE StrCmp(Tail(l), Tail(r))

\* StrCmp on the lowercased strings, in the place of the natural order.
LexicalCompare(l, r) ==
    StrCmp([k \in 1..Len(l) |-> ToLowercase(l[k])], [k \in 1..Len(r) |-> ToLowercase(r[k])])

\* The position of the first character from i on that is not skipped.
RECURSIVE SkipWhitespace(_, _)
SkipWhitespace(s, i) ==
    IF i <= Len(s) /\ IsWhitespace(s[i]) THEN SkipWhitespace(s, i + 1) ELSE i

\* natord::compare_iter as compare_ignore_case calls it, with l and r read
\* up to positions i and j.  NatNonDigits is the outer loop, NatDigitsLeft
\* the left-aligned loop entered when a run begins with 0 on either side,
\* NatDigitsRight the right-aligned loop with the comparison of the first
\* differing digits carried along.
RECURSIVE NatNonDigits(_, _, _, _), NatDigitsLeft(_, _, _, _), NatDigitsRight(_, _, _, _, _)
NatNonDigits(l, r, i0, j0) ==
    LET i == SkipWhitespace(l, i0)
        j == SkipWhitespace(r, j0)
    IN  IF i > Len(l) /\ j > Len(r) THEN "Equal"
        ELSE IF i > Len(l) THEN "Less"
        ELSE IF j > Len(r) THEN "Greater"
        ELSE IF IsDigit(l[i]) /\ IsDigit(r[j])
             THEN IF ToDigit(l[i]) = 0 \/ ToDigit(r[j]) = 0
                  THEN IF ToDigit(l[i]) # ToDigit(r[j])
                       THEN Cmp(ToDigit(l[i]), ToDigit(r[j]))
                       ELSE NatDigitsLeft(l, r, i + 1, j + 1)
                  ELSE NatDigitsRight(l, r, i + 1, j + 1, Cmp(ToDigit(l[i]), ToDigit(r[j])))
        ELSE IF CodePoint[ToLowercase(l[i])] # CodePoint[ToLowercase(r[j])]
             THEN Cmp(CodePoint[ToLowercase(l[i])], CodePoint[ToLowercase(r[j])])
        ELSE NatNonDigits(l, r, i + 1, j + 1)

NatDigitsLeft(l, r, i, j) ==
    LET ll == i <= Len(l) /\ IsDigit(l[i])
        rr == j <= Len(r) /\ IsDigit(r[j])
    IN  IF ll /\ rr
        THEN IF ToDigit(l[i]) # ToDigit(r[j])
             THEN Cmp(ToDigit(l[i]), ToDigit(r[j]))
             ELSE NatDigitsLeft(l, r, i + 1, j + 1)
        ELSE IF ll THEN "Greater"
        ELSE IF rr THEN "Less"
        ELSE NatNonDigits(l, r, i, j)

NatDigitsRight(l, r, i, j, lastcmp) ==
    LET ll == i <= Len(l) /\ IsDigit(l[i])
        rr == j <= Len(r) /\ IsDigit(r[j])
    IN  IF ll /\ rr
        THEN NatDigitsRight(l, r, i + 1, j + 1,
                            IF lastcmp = "Equal" THEN Cmp(ToDigit(l[i]), ToDigit(r[j]))
                            ELSE lastcmp)
        ELSE IF ll THEN "Greater"
        ELSE IF rr THEN "Less"
        ELSE IF lastcmp # "Equal" THEN lastcmp
        ELSE NatNonDigits(l, r, i, j)

\* natord::compare_ignore_case(left, right).
NatCompare(l, r) == NatNonDigits(l, r, 1, 1)

\* SortBy::get_ordering(a, b).
GetOrdering(by, a, b) ==
    CASE by = "NameAscending" -> StrCmp(a.name, b.name)
      [] by = "NameDescending" -> Reverse(StrCmp(a.name, b.name))
      [] by = "DateAscending" -> Cmp(a.date, b.date)
      [] by = "DateDescending" -> Reverse(Cmp(a.date, b.date))
      [] by = "VersionAscending" -> NatCompare(a.version, b.version)
      [] by = "VersionDescending" -> Reverse(NatCompare(a.version, b.version))

\* enumerate(): the packages with their positions, counted from 0.
Enumerate(s) == [k \in 1..Len(s) |-> [index |-> k - 1, package |-> s[k]]]

\* sorted_by, a stable sort: each item goes in front of the first item that
\* is already placed and that it is less than.
RECURSIVE SortedBy(_, _)
SortedBy(items, by) ==
    IF items = <<>> THEN <<>>
    ELSE LET front == SortedBy(SubSeq(items, 1, Len(items) - 1), by)
             x == items[Len(items)]
             before == {k \in 1..Len(front) :
                           GetOrdering(by, x.package, front[k].package) = "Less"}
             at == IF before = {} THEN Len(front) + 1
                   ELSE CHOOSE k \in before : \A h \in before : k <= h
         IN  SubSeq(front, 1, at - 1) \o <<x>> \o SubSeq(front, at, Len(front))

\* The package list as Gui::view orders it.
SortedPackages(r, by) == SortedBy(Enumerate(Chain(r)), by)

\* The names, dates and versions the sorted packages are drawn from.
SortNames == {<<"a">>, <<"a", "b">>, <<"B">>}

SortDates == {1, 2}

SortVersions ==
    {<<"2", ".", "9">>, <<"2", ".", "9", "0">>, <<"2", ".", "1", "0">>,
     <<"2", ".", "0", "9">>, <<"2", ".", "1">>, <<"2", ".", "9", "a">>,
     <<"2", ".", "9", "A">>, <<"2", " ", ".", "9">>, <<"1", "0", ".", "0">>}

SortPackages ==
    {[name |-> n, date |-> d, version |-> v, state |-> Fetched] :
        n \in SortNames, d \in SortDates, v \in SortVersions}

\* Message::SortingChanged(sort_by).
SortingChanged(by) ==
    /\ fault = "none"
    /\ by \in SortBys
    /\ sort_by' = by
    /\ UNCHANGED filters
    /\ UNCHANGED <<releases, installing, settings, commands, probes, pipelines, disk,
                   msgboxes, calls, clicks, failures, fault, fetches, remote, presses>>

\* Two drawn packages in the archived store, the sorting the default one.
InitSort ==
    /\ \E a, b \in SortPackages :
          releases = [daily |-> <<>>, branched |-> <<>>, stable |-> <<>>, lts |-> <<>>,
                      archived |-> <<a, b>>, installed |-> <<>>]
    /\ sort_by = "VersionDescending"
    /\ filters = FiltersDefault
    /\ settings = FlagSettings("archived", FALSE)
    /\ remote = [c \in ChannelSet |-> <<>>]
    /\ disk = {}
    /\ installing = <<>>
    /\ commands = EmptyBag
    /\ probes = EmptyBag
    /\ pipelines = [n \in PackageNames |-> NoPipeline]
    /\ msgboxes = {}
    /\ calls = <<>>
    /\ clicks = 0
    /\ failures = 0
    /\ fault = "none"
    /\ fetches = EmptyBag
    /\ presses = 0

NextSort == \E by \in SortBys : SortingChanged(by)

SpecSort == InitSort /\ [][NextSort]_vars

----------------------------------------------------------------------------
(* The policy gate on drawn registries: next to the packages of the catalog  *)
(* a Daily build of another subtype and a Branched build of another branch   *)
(* may be installed.                                                         *)

BuildDailyB == [kind |-> "Daily", sub |-> "b"]

BuildBranchedY == [kind |-> "Branched", sub |-> "y"]

GateRegistries ==
    {<<>>,
     <<[Pkg("db", BuildDailyB, 1) EXCEPT !.state = Installed]>>,
     <<[Pkg("by", BuildBranchedY, 1) EXCEPT !.state = Installed]>>,
     <<[Pkg("db", BuildDailyB, 1) EXCEPT !.state = Installed],
       [Pkg("by", BuildBranchedY, 1) EXCEPT !.state = Installed]>>}

GateDisks == SUBSET {"d1", "s1"}

InitGate ==
    /\ disk \in GateDisks
    /\ \E status \in StatusSet, others \in GateRegistries :
          releases = [DrawnReleases(status, disk) EXCEPT !.installed = @ \o others]
    /\ settings \in {FlagSettings(channel, on) : channel \in GatedChannels, on \in BOOLEAN}
    /\ remote = [c \in ChannelSet |-> Universe[c]]
    /\ installing = <<>>
    /\ commands = EmptyBag
    /\ probes = EmptyBag
    /\ pipelines = [n \in PackageNames |-> NoPipeline]
    /\ msgboxes = {}
    /\ calls = <<>>
    /\ clicks = 0
    /\ failures = 0
    /\ fault = "none"
    /\ sort_by = "VersionDescending"
    /\ filters = FiltersDefault
    /\ fetches = EmptyBag
    /\ presses = 0

NextGate ==
    \/ \E i \in 1..Len(Chain(Universe)) : PressInstall(i)
    \/ \E m \in BagToSet(commands) : TryToInstall(m)

SpecGate == InitGate /\ [][NextGate]_vars

----------------------------------------------------------------------------
(* The launcher started with a saved default package: the stores hold both  *)
(* builds of the line, the older one or both are installed, and             *)
(* keep-only-latest is on for the line's channel.                           *)

\* Gui::new: a saved default package that is not in the installed registry
\* is cleared.
NewDefault(saved, installed) ==
    IF saved # "none" /\ ~\E i \in 1..Len(installed) : installed[i].name = saved
    THEN "none"
    ELSE saved

\* The settings file names no default package or a build of the line.
SavedDefaults(channel) == {"none", Universe[channel][1].name, Universe[channel][2].name}

InitDefault ==
    /\ \E channel \in ChannelSet :
          /\ disk \in KnownDisks(channel) \ {InitDisk(channel)}
          /\ releases = LoadReleases(channel, disk)
          /\ remote = Catalog(channel)
          /\ \E saved \in SavedDefaults(channel) :
                settings = [FlagSettings(channel, TRUE) EXCEPT
                               !.default_package = NewDefault(saved, releases.installed)]
    /\ installing = <<>>
    /\ commands = EmptyBag
    /\ probes = EmptyBag
    /\ pipelines = [n \in PackageNames |-> NoPipeline]
    /\ msgboxes = {}
    /\ calls = <<>>
    /\ clicks = 0
    /\ failures = 0
    /\ fault = "none"
    /\ sort_by = "VersionDescending"
    /\ filters = FiltersDefault
    /\ fetches = EmptyBag
    /\ presses = 0

SpecDefault == InitDefault /\ [][NextUninstall]_vars

----------------------------------------------------------------------------
(* The filter messages and Filters::matches. *)

\* Every value of struct Filters.
FilterSet ==
    [{"updates", "installed", "all", "daily", "branched", "lts", "stable", "archived"}
        -> BOOLEAN]

\* RefreshAll setting the flag when any channel flag is set.
RefreshAllAny(f) ==
    IF f.daily \/ f.branched \/ f.stable \/ f.lts \/ f.archived
    THEN [f EXCEPT !.all = TRUE]
    ELSE [f EXCEPT !.all = FALSE]

\* Filters::refresh_all.
RefreshAll(f) ==
    IF f.daily /\ f.branched /\ f.stable /\ f.lts /\ f.archived
    THEN [f EXCEPT !.all = TRUE]
    ELSE [f EXCEPT !.all = FALSE]

\* Matches with the installed filter looked at before the updates filter.
MatchesInstalledFirst(f, package) ==
    IF f.installed
    THEN f[ChannelOf(package.build)] /\ package.state.tag = "Installed"
    ELSE IF f.updates
    THEN f[ChannelOf(package.build)] /\ package.status = "Update"
    ELSE f[ChannelOf(package.build)]

\* Filters::matches.
Matches(f, package) ==
    IF f.updates
    THEN CASE package.build.kind = "Daily" /\ f.daily /\ package.status = "Update" -> TRUE
           [] package.build.kind = "Branched" /\ f.branched /\ package.status = "Update" -> TRUE
           [] package.build.kind = "Stable" /\ f.stable /\ package.status = "Update" -> TRUE
           [] package.build.kind = "Lts" /\ f.lts /\ package.status = "Update" -> TRUE
           [] package.build.kind = "Archived" /\ f.archived /\ package.status = "Update" -> TRUE
           [] OTHER -> FALSE
    ELSE IF f.installed
    THEN CASE package.build.kind = "Daily" /\ f.daily /\ package.state.tag = "Installed" -> TRUE
           [] package.build.kind = "Branched" /\ f.branched /\ package.state.tag = "Installed" -> TRUE
           [] package.build.kind = "Stable" /\ f.stable /\ package.state.tag = "Installed" -> TRUE
           [] package.build.kind = "Lts" /\ f.lts /\ package.state.tag = "Installed" -> TRUE
           [] package.build.kind = "Archived" /\ f.archived /\ package.state.tag = "Installed" -> TRUE
           [] OTHER -> FALSE
    ELSE CASE package.build.kind = "Daily" /\ f.daily -> TRUE
           [] package.build.kind = "Branched" /\ f.branched -> TRUE
           [] package.build.kind = "Stable" /\ f.stable -> TRUE
           [] package.build.kind = "Lts" /\ f.lts -> TRUE
           [] package.build.kind = "Archived" /\ f.archived -> TRUE
           [] OTHER -> FALSE

\* The packages the view lists: the chained stores, filtered.
FilteredPackages(r, f) == SelectSeq(Chain(r), LAMBDA package : Matches(f, package))

\* What a filter message leaves alone.
FilterFrame ==
    UNCHANGED <<releases, installing, settings, commands, probes, pipelines, disk,
                msgboxes, calls, clicks, failures, fault, fetches, remote, presses,
                sort_by>>

\* FilterUpdatesChanged leaving the installed filter as it is.
FilterUpdatesChangedAlone(change) ==
    /\ change \in BOOLEAN
    /\ filters' = [filters EXCEPT !.updates = change]
    /\ FilterFrame

\* Message::FilterUpdatesChanged(change).
FilterUpdatesChanged(change) ==
    /\ change \in BOOLEAN
    /\ filters' = IF change
                  THEN [filters EXCEPT !.updates = TRUE, !.installed = FALSE]
                  ELSE [filters EXCEPT !.updates = FALSE]
    /\ FilterFrame

\* Message::FilterInstalledChanged(change).
FilterInstalledChanged(change) ==
    /\ change \in BOOLEAN
    /\ filters' = IF change
                  THEN [filters EXCEPT !.installed = TRUE, !.updates = FALSE]
                  ELSE [filters EXCEPT !.installed = FALSE]
    /\ FilterFrame

\* Message::FilterAllChanged(change).
FilterAllChanged(change) ==
    /\ change \in BOOLEAN
    /\ filters' = [filters EXCEPT !.all = change, !.daily = change, !.branched = change,
                                  !.stable = change, !.lts = change, !.archived = change]
    /\ FilterFrame

\* Message::FilterDailyChanged, FilterBranchedChanged, FilterStableChanged,
\* FilterLtsChanged and FilterArchivedChanged.
FilterChannelChanged(channel, change) ==
    /\ channel \in ChannelSet
    /\ change \in BOOLEAN
    /\ filters' = RefreshAll([filters EXCEPT ![channel] = change])
    /\ FilterFrame

\* The stores as loaded at startup, for every line and what is installed of it.
InitFilterCatalog ==
    /\ \E channel \in ChannelSet :
          /\ disk \in KnownDisks(channel)
          /\ releases = LoadReleases(channel, disk)
          /\ remote = Catalog(channel)
          /\ settings = FlagSettings(channel, FALSE)
    /\ sort_by = "VersionDescending"
    /\ installing = <<>>
    /\ commands = EmptyBag
    /\ probes = EmptyBag
    /\ pipelines = [n \in PackageNames |-> NoPipeline]
    /\ msgboxes = {}
    /\ calls = <<>>
    /\ clicks = 0
    /\ failures = 0
    /\ fault = "none"
    /\ fetches = EmptyBag
    /\ presses = 0

\* No settings file, or one with the default filters.
InitFilter == InitFilterCatalog /\ filters = FiltersDefault

\* GuiState::new with the filters of any settings file.
InitMatches == InitFilterCatalog /\ filters \in FilterSet

NextFilter ==
    \/ \E change \in BOOLEAN : FilterUpdatesChanged(change)
    \/ \E change \in BOOLEAN : FilterInstalledChanged(change)
    \/ \E change \in BOOLEAN : FilterAllChanged(change)
    \/ \E channel \in ChannelSet, change \in BOOLEAN : FilterChannelChanged(channel, change)

SpecFilter == InitFilter /\ [][NextFilter]_vars

SpecMatches == InitMatches /\ [][NextFilter]_vars

----------------------------------------------------------------------------
(* Properties. *)

\* How many copies of message m are still to be delivered.
Copies(m, bag) == IF BagIn(m, bag) THEN CopiesIn(m, bag) ELSE 0

\* The keep-only-latest setting of a build's channel is enabled.
C1_KeepOnlyLatestEnabled(build) ==
    \/ build.kind = "Daily" /\ settings.keep_only_latest_daily
    \/ build.kind = "Branched" /\ settings.keep_only_latest_branched
    \/ build.kind = "Stable" /\ settings.keep_only_latest_stable
    \/ build.kind = "Lts" /\ settings.keep_only_latest_lts

C1_ChannelMessage(build) ==
    CASE build.kind = "Daily" -> "daily package of its build type"
      [] build.kind = "Branched" -> "branched package of its build type"
      [] build.kind = "Stable" -> "stable package"
      [] build.kind = "Lts" -> "LTS package"

C1_GateApplies(package) ==
    /\ C1_KeepOnlyLatestEnabled(package.build)
    /\ package.status # "Update"
    /\ \E q \in Range(releases.installed) : q.build = package.build

\* C1: when TryToInstall(P) is handled while keep-only-latest is enabled for
\* P's channel (Daily, Branched, Stable or LTS), P.status is not Update and the
\* installed registry holds a package of P's build, the install is refused
\* with that channel's message: no probe is issued, no message is sent on, the
\* in-flight list, the streams and every package state stay as they were.
C1_PolicyGateRefuses ==
    [][\A m \in Pending("TryToInstall") :
          (C1_GateApplies(m.package) /\ commands' = Take(m)) =>
              /\ probes' = probes
              /\ installing' = installing
              /\ pipelines' = pipelines
              /\ releases' = releases
              /\ CantInstall(m.package, C1_ChannelMessage(m.package.build)) \in msgboxes'
      ]_vars

\* A Daily install has been refused while the process kept running.
C1_Refused ==
    /\ fault = "none"
    /\ \E x \in msgboxes :
          x.notice = "cant_install" /\ x.reason = "daily package of its build type"

\* C2: the in-flight install list never holds two entries for one package.
C2_OneEntryPerPackage ==
    \A j, k \in 1..Len(installing) :
        PkgEq(installing[j].package, installing[k].package) => j = k

\* The channel store a package belongs to by its build.
C3_Store(r, package) ==
    CASE package.build.kind = "Daily" -> r.daily
      [] package.build.kind = "Branched" -> r.branched
      [] package.build.kind = "Stable" -> r.stable
      [] package.build.kind = "Lts" -> r.lts
      [] package.build.kind = "Archived" -> r.archived

C3_OtherStoresUnchanged(package) ==
    /\ package.build.kind # "Daily" => releases'.daily = releases.daily
    /\ package.build.kind # "Branched" => releases'.branched = releases.branched
    /\ package.build.kind # "Stable" => releases'.stable = releases.stable
    /\ package.build.kind # "Lts" => releases'.lts = releases.lts
    /\ package.build.kind # "Archived" => releases'.archived = releases.archived

\* C3: when a probe result for P with available = false is handled, P is
\* removed from the channel store selected by P.build: that store is shorter by
\* one and holds no package equal to P afterwards, and the other four channel
\* stores are unchanged.
C3_AvailabilityRemoval ==
    [][\A m \in Pending("CheckAvailability") :
          (~m.available /\ commands' = Take(m)) =>
              /\ \E q \in Range(C3_Store(releases, m.package)) : PkgEq(q, m.package)
              /\ Len(C3_Store(releases', m.package)) =
                    Len(C3_Store(releases, m.package)) - 1
              /\ \A q \in Range(C3_Store(releases', m.package)) : ~PkgEq(q, m.package)
              /\ C3_OtherStoresUnchanged(m.package)
      ]_vars

\* A package was found gone and removed while another store holds a package.
C3_Removed ==
    /\ fault = "none"
    /\ \E x \in msgboxes :
          /\ x.notice = "no_longer_available"
          /\ x.package \notin {q.name : q \in Range(Chain(releases))}
    /\ Len(releases.archived) > 0
    /\ Len(Chain(releases)) > Len(releases.archived)

\* The packages of the catalog that are downloading.
C4_Downloadings(r) == {q.name : q \in {x \in Range(Chain(r)) : x.state.tag = "Downloading"}}

\* C4: when the install-time probe result of P reports a 4xx status, handling
\* it aborts the install: no InstallPackage message is sent on, the in-flight
\* list and the streams stay as they were (so no Started event for the
\* request), and no package enters Downloading.
C4_GoneAbortsInstall ==
    [][\A m \in Pending("CheckAvailability") :
          (/\ m.for_install
           /\ m.http \in 400..499
           /\ Copies(m, commands') < Copies(m, commands)) =>
              /\ commands' = Take(m)
              /\ Pending("InstallPackage")' = Pending("InstallPackage")
              /\ installing' = installing
              /\ pipelines' = pipelines
              /\ C4_Downloadings(releases') \subseteq C4_Downloadings(releases)
              /\ NoLongerAvailable(m.package) \in msgboxes'
      ]_vars

\* An install request ended with the package found gone, nothing in flight.
C4_Aborted ==
    /\ fault = "none"
    /\ \E x \in msgboxes : x.notice = "no_longer_available"
    /\ installing = <<>>
    /\ commands = EmptyBag
    /\ probes = EmptyBag
    /\ \A n \in PackageNames : ~pipelines[n].running

\* C5: a probe result reports the package as available only for a 2xx or 3xx
\* status; any other status is not reported as available.
C5_OnlySuccessIsAvailable ==
    \A m \in Pending("CheckAvailability") : m.available => m.http \in 200..399

\* C6: a probe that ends in a connection failure delivers no CheckAvailability
\* result: no message is sent, no store and no registry is modified, no notice
\* is raised and no install is started.
C6_ConnectionFailureIsSilent ==
    [][failures' > failures =>
          /\ commands' = commands
          /\ releases' = releases
          /\ installing' = installing
          /\ pipelines' = pipelines
          /\ msgboxes' = msgboxes
          /\ disk' = disk
          /\ settings' = settings
      ]_vars

\* A probe failed to connect, the process kept running, and every package of
\* the startup catalog is still in its store with nothing in flight.
C6_FailedProbe ==
    /\ failures > 0
    /\ fault = "none"
    /\ commands = EmptyBag
    /\ probes = EmptyBag
    /\ installing = <<>>
    /\ \E channel \in ChannelSet :
          Names(Chain(releases)) = Names(Chain(LoadReleases(channel, InitDisk(channel))))

\* The state the claimed table gives for an event, from the state before.
C7_StateAfter(state, ev, p) ==
    IF ev = "Started" THEN [tag |-> "Downloading", progress |-> 0]
    ELSE IF ev = "DownloadProgress" THEN [tag |-> "Downloading", progress |-> p]
    ELSE IF ev = "ExtractionProgress" THEN [tag |-> "Extracting", progress |-> p]
    ELSE IF ev = "FinishedInstalling" THEN [tag |-> "Installed", progress |-> 0]
    ELSE IF ev = "Errored" THEN [tag |-> "Errored", progress |-> 0]
    ELSE state

\* A stream that was running emitted an event in this step.
C7_Emitted(n) ==
    /\ pipelines[n].running
    /\ pipelines'[n].running
    /\ <<pipelines'[n].ev, pipelines'[n].progress>> # <<pipelines[n].ev, pipelines[n].progress>>

\* C7: handling an install-pipeline event sets the state of the package that
\* handles it: Started gives Downloading{0}, DownloadProgress(p) gives
\* Downloading{p}, ExtractionProgress(p) gives Extracting{p},
\* FinishedInstalling gives Installed, Errored gives Errored, and
\* FinishedDownloading and FinishedExtracting leave the state unchanged.
C7_StateMachine ==
    [][\A n \in PackageNames :
          (C7_Emitted(n) /\ pipelines[n].index < Len(Chain(releases))) =>
              LET i == pipelines[n].index + 1
              IN  /\ Len(Chain(releases')) = Len(Chain(releases))
                  /\ Chain(releases')[i].state =
                        C7_StateAfter(Chain(releases)[i].state,
                                      pipelines'[n].ev, pipelines'[n].progress)
      ]_vars

\* A package is extracting at the highest progress its stream reported.
C7_Extracting ==
    /\ fault = "none"
    /\ \E n \in PackageNames :
          /\ pipelines[n].running
          /\ pipelines[n].ev = "ExtractionProgress"
          /\ pipelines[n].progress = MaxProgress
          /\ \E q \in Range(Chain(releases)) :
                q.name = n /\ q.state = [tag |-> "Extracting", progress |-> MaxProgress]

\* C8: a package whose state is Installed or Errored is not moved back to
\* Fetched, Downloading or Extracting by any step, except by the Started event
\* of a new install attempt of that package, which puts it at Downloading{0}.
C8_InstalledErroredTerminal ==
    [][\A q \in Range(Chain(releases)), x \in Range(Chain(releases')) :
          (/\ x.name = q.name
           /\ q.state.tag \in {"Installed", "Errored"}
           /\ x.state.tag \in {"Fetched", "Downloading", "Extracting"}) =>
              /\ pipelines[q.name].ev = "none"
              /\ pipelines'[q.name].ev = "Started"
              /\ x.state = [tag |-> "Downloading", progress |-> 0]
      ]_vars

\* C9: an Errored event of the stream of package P sets P's state to Errored
\* and changes nothing else: every other package of the stores, the installed
\* registry, the other streams, the in-flight list, the messages and the
\* probes are as before, and the process keeps running.
C9_ErroredIsLocal ==
    [][\A n \in PackageNames :
          (C7_Emitted(n) /\ pipelines'[n].ev = "Errored") =>
              /\ fault' = fault
              /\ Len(Chain(releases')) = Len(Chain(releases))
              /\ \A i \in 1..Len(Chain(releases)) :
                    IF Chain(releases)[i].name = n
                    THEN Chain(releases')[i] =
                            [Chain(releases)[i] EXCEPT
                                !.state = [tag |-> "Errored", progress |-> 0]]
                    ELSE Chain(releases')[i] = Chain(releases)[i]
              /\ releases'.installed = releases.installed
              /\ \A k \in PackageNames \ {n} : pipelines'[k] = pipelines[k]
              /\ installing' = installing
              /\ commands' = commands
              /\ probes' = probes
      ]_vars

\* The in-flight list with one entry for the package taken out.
C10_OneEntryRemoved(before, after, package) ==
    \E k \in 1..Len(before) :
        /\ PkgEq(before[k].package, package)
        /\ Len(after) = Len(before) - 1
        /\ \A j \in 1..Len(after) : after[j] = IF j < k THEN before[j] ELSE before[j + 1]

\* C10: handling PackageInstalled(P) removes exactly one entry for P from the
\* in-flight list and then calls, in this order, the registry rescan, the
\* default-package revalidation, the pruning of old packages and the catalog
\* sync: the registry afterwards is the rescanned one with the old packages
\* pruned, what is pruned is gone from disk, and the statuses are those a sync
\* of the result gives.  A step of an install stream does none of this.
C10_FinalizeOrder ==
    [][/\ \A m \in Pending("PackageInstalled") :
             Copies(m, commands') < Copies(m, commands) =>
                 /\ C10_OneEntryRemoved(installing, installing', m.package)
                 /\ calls' = <<"installing.remove", "installed.fetch",
                               "installed.update_default",
                               "installed.remove_old_packages", "releases.sync">>
                 /\ {q.name : q \in Range(releases'.installed)} = disk'
                 /\ disk' = disk \ OldPackages(settings', InstalledFetch(disk))
                 /\ releases' = Sync(releases')
       /\ \A n \in PackageNames :
             C7_Emitted(n) =>
                 /\ releases'.installed = releases.installed
                 /\ settings' = settings
                 /\ installing' = installing
                 /\ calls' = calls
      ]_vars

\* An install was finalized under keep-only-latest: the older build of the
\* line, installed before, was pruned from disk and from the registry.
C10_Finalized ==
    /\ fault = "none"
    /\ calls # <<>>
    /\ \E c \in GatedChannels :
          /\ Universe[c][2].name \in disk
          /\ Universe[c][1].name \notin disk
          /\ \E q \in Range(releases[c]) :
                q.name = Universe[c][1].name /\ q.state.tag = "Installed"
          /\ \A q \in Range(releases.installed) : q.name # Universe[c][1].name

\* C11: after PackageInstalled(P) has been handled for a package P of a
\* channel with keep-only-latest enabled, the installed registry holds no
\* package other than P whose build equals P.build.
C11_PrunedToInstalled ==
    [][\A m \in Pending("PackageInstalled") :
          (/\ Copies(m, commands') < Copies(m, commands)
           /\ KeepOnlyLatest(settings', m.package.build)) =>
              \A q \in Range(releases'.installed) :
                  q.build = m.package.build => PkgEq(q, m.package)
      ]_vars

\* C18: an event of the stream of package P changes no package other than P,
\* and does not end the process.
C18_EventsReachOnlyTheirPackage ==
    [][\A n \in PackageNames :
          C7_Emitted(n) =>
              /\ fault' = fault
              /\ Len(Chain(releases')) = Len(Chain(releases))
              /\ \A i \in 1..Len(Chain(releases)) :
                    Chain(releases)[i].name # n =>
                        Chain(releases')[i] = Chain(releases)[i]
      ]_vars

\* C19: handling TryToInstall of a package with build Archived issues the
\* availability probe with for_install = true and raises no notice, whatever
\* the keep-only-latest settings, the package's status and the registry.
C19_ArchivedNeverGated ==
    [][\A m \in Pending("TryToInstall") :
          (/\ m.package.build.kind = "Archived"
           /\ Copies(m, commands') < Copies(m, commands)) =>
              /\ probes' = probes (+) SetToBag({[for_install |-> TRUE, package |-> m.package]})
              /\ msgboxes' = msgboxes
      ]_vars

\* The probe of an Archived package that is not an update is in flight while
\* every keep-only-latest flag is on and an Archived package is installed.
C19_ArchivedProbed ==
    /\ fault = "none"
    /\ settings.keep_only_latest_daily /\ settings.keep_only_latest_branched
    /\ settings.keep_only_latest_stable /\ settings.keep_only_latest_lts
    /\ \E q \in Range(releases.installed) : q.build.kind = "Archived"
    /\ \E pr \in BagToSet(probes) :
          /\ pr.for_install
          /\ pr.package.build.kind = "Archived"
          /\ pr.package.status # "Update"

\* A refresh was requested, returned or handed back in this step.
C12_RefreshStep == fetches' # fetches

\* A settings toggle was handled in this step.
C12_ToggleStep == presses' # presses /\ fetches' = fetches

\* A probe result was handled in this step.
C12_ProbeResultStep ==
    \E m \in Pending("CheckAvailability") : Copies(m, commands') < Copies(m, commands)

\* C12: no refresh step, no probe result and no settings toggle changes the
\* installed registry or deletes an installation; the pruning calls are made,
\* and installed packages disappear, only in a step that handles
\* PackageInstalled.
C12_PruningOnlyAfterInstall ==
    [][/\ (C12_RefreshStep \/ C12_ToggleStep \/ C12_ProbeResultStep) =>
             /\ releases'.installed = releases.installed
             /\ disk' = disk
             /\ calls' = calls
       /\ (\/ calls' # calls
           \/ ~(disk \subseteq disk')
           \/ \E q \in Range(releases.installed) :
                 \A x \in Range(releases'.installed) : ~PkgEq(x, q)) =>
             \E m \in Pending("PackageInstalled") :
                 Copies(m, commands') < Copies(m, commands)
      ]_vars

\* The user's presses are used up on refreshes and toggles, keep-only-latest
\* is on for a channel, and both builds of that channel's line are still
\* installed and in the registry.
C12_NotPruned ==
    /\ fault = "none"
    /\ presses = MaxPresses
    /\ fetches = EmptyBag
    /\ \E c \in GatedChannels :
          /\ KeepOnlyLatest(settings, Universe[c][1].build)
          /\ {Universe[c][1].name, Universe[c][2].name} \subseteq disk
          /\ {Universe[c][1].name, Universe[c][2].name} \subseteq
                {q.name : q \in Range(releases.installed)}

\* C13: sync() is idempotent: a second call right after a first one leaves
\* every status tag as the first call left it, and count_updates() gives the
\* same result after the second call as after the first.
C13_SyncIdempotent ==
    /\ Sync(Sync(releases)) = Sync(releases)
    /\ CountUpdates(settings, Sync(Sync(releases))) = CountUpdates(settings, Sync(releases))

\* Two handlers in a row have called sync(): the first call changed a tag of
\* the drawn catalog (a package is tagged Update that sync tags so), and the
\* catalog is as a further call leaves it.
C13_SyncedTwice ==
    /\ presses = MaxPresses
    /\ releases = Sync(releases)
    /\ \E status \in StatusSet :
          /\ DrawnReleases(status, disk) # releases
          /\ Sync(DrawnReleases(status, disk)) = releases
    /\ \E q \in Range(Chain(releases)) : q.status = "Update"
    /\ \E q \in Range(Chain(releases)) : q.status = "Old"

\* The count of a channel as claimed: none when the channel's setting is off.
C15_Count(enabled, store) ==
    IF enabled
    THEN <<Cardinality({i \in DOMAIN store : store[i].status = "Update"})>>
    ELSE <<>>

\* The sum of the counts that are there.
C15_Sum(counts) ==
    LET n(o) == IF o = <<>> THEN 0 ELSE o[1]
    IN  n(counts[1]) + n(counts[2]) + n(counts[3]) + n(counts[4])

\* C15: each per-channel count of count_updates() is None when the channel's
\* update setting is disabled and otherwise Some(number of packages of the
\* channel tagged Update); the total is None iff every channel is disabled and
\* otherwise the sum of the enabled channels' counts.  The window title shows
\* the total when there is one.
C15_CountUpdates ==
    LET counts == <<C15_Count(settings.update_daily, releases.daily),
                    C15_Count(settings.update_branched, releases.branched),
                    C15_Count(settings.update_stable, releases.stable),
                    C15_Count(settings.update_lts, releases.lts)>>
        got == CountUpdates(settings, releases)
        disabled == /\ ~settings.update_daily /\ ~settings.update_branched
                    /\ ~settings.update_stable /\ ~settings.update_lts
    IN  /\ <<got[2], got[3], got[4], got[5]>> = counts
        /\ (got[1] = <<>>) <=> disabled
        /\ ~disabled => got[1] = <<C15_Sum(counts)>>
        /\ Title(settings, releases).count = got[1]

\* After a toggle, one channel with updates is disabled and another one with
\* updates is enabled: the total counts the enabled ones only.
C15_PartlyEnabled ==
    /\ presses > 0
    /\ ~settings.update_daily /\ UpdateCount(releases.daily) = 1
    /\ settings.update_stable /\ UpdateCount(releases.stable) = 1
    /\ settings.update_lts /\ UpdateCount(releases.lts) = 0
    /\ CountUpdates(settings, releases)[1] \in {<<1>>, <<2>>}

\* An older build of q's line is in the installed registry r.
C14_OlderInRegistry(q, r) ==
    \E p \in Range(r.installed) : p.build = q.build /\ p.date < q.date

\* An older build of q's line is installed on disk d.
C14_OlderOnDisk(q, d) ==
    \E p \in Range(Chain(Universe)) : p.name \in d /\ p.build = q.build /\ p.date < q.date

\* The stores a refresh returns, given the stores it took: every package of
\* the listing is there, tagged Update when an older build of its line is
\* installed, and, when none is, New if the store did not hold it and Old if
\* it did.
C14_Tagged(kind, taken, returned) ==
    \A c \in TakenBy(kind) :
        /\ \A k \in DOMAIN remote[c] :
              \E i \in DOMAIN returned[c] : PkgEq(returned[c][i], remote[c][k])
        /\ \A i \in DOMAIN returned[c] :
              LET q == returned[c][i]
              IN  /\ C14_OlderInRegistry(q, releases) => q.status = "Update"
                  /\ ~C14_OlderOnDisk(q, disk) =>
                        q.status = IF \E j \in DOMAIN taken[c] : PkgEq(taken[c][j], q)
                                   THEN "Old" ELSE "New"

\* The count count_updates() gives for a gated channel.
C14_CountOf(s, r, c) ==
    CASE c = "daily" -> CountUpdates(s, r)[2]
      [] c = "branched" -> CountUpdates(s, r)[3]
      [] c = "stable" -> CountUpdates(s, r)[4]
      [] c = "lts" -> CountUpdates(s, r)[5]

C14_Enabled(s, c) ==
    CASE c = "daily" -> s.update_daily
      [] c = "branched" -> s.update_branched
      [] c = "stable" -> s.update_stable
      [] c = "lts" -> s.update_lts

\* C14: when a refresh returns, a listed package Q with an older build of its
\* line in the installed registry is tagged Update, a package the store did
\* not hold is tagged New and the others Old; when the result is handed
\* back, the channel's store holds Q tagged Update and the channel's count of
\* count_updates(), the channel being enabled, counts it.
C14_StatusTagging ==
    [][/\ \A g \in BagToSet(fetches) :
             (~g.done /\ Copies(g, fetches') < Copies(g, fetches)) =>
                \E f \in BagToSet(fetches') :
                    /\ f.done /\ f.kind = g.kind
                    /\ Copies(f, fetches') > Copies(f, fetches)
                    /\ C14_Tagged(g.kind, g.stores, f.stores)
       /\ \A f \in BagToSet(fetches) :
             (f.done /\ Copies(f, fetches') < Copies(f, fetches)) =>
                \A c \in TakenBy(f.kind) \cap GatedChannels :
                    /\ f.kind # "updates" => releases'[c] = f.stores[c]
                    /\ \A q \in Range(f.stores[c]) :
                          (q.status = "Update" /\ C14_OlderInRegistry(q, releases)) =>
                             \E x \in Range(releases'[c]) :
                                 PkgEq(x, q) /\ x.status = "Update"
                    /\ C14_Enabled(settings', c) =>
                          C14_CountOf(settings', releases', c) =
                             <<Cardinality({i \in DOMAIN releases'[c] :
                                              releases'[c][i].status = "Update"})>>
      ]_vars

\* The stable channel has been refreshed with the older stable build in the
\* registry: the newer build is in the store tagged Update, the older one is
\* Old, and the stable count is 1.
C14_StableUpdate ==
    /\ fault = "none"
    /\ presses > 0
    /\ fetches = EmptyBag
    /\ settings.update_stable
    /\ \E p \in Range(releases.installed) : p.name = "s1"
    /\ Len(releases.stable) = 2
    /\ releases.stable[1].name = "s1" /\ releases.stable[1].status = "Old"
    /\ releases.stable[2].name = "s2" /\ releases.stable[2].status = "Update"
    /\ CountUpdates(settings, releases)[4] = <<1>>

\* The number of refresh futures and results in flight that hold the store
\* of channel c.
C16_Holders(c) ==
    LET holding == {f \in BagToSet(fetches) : c \in TakenBy(f.kind)}
        RECURSIVE Sum(_)
        Sum(fs) == IF fs = {} THEN 0
                   ELSE LET f == CHOOSE x \in fs : TRUE
                        IN  CopiesIn(f, fetches) + Sum(fs \ {f})
    IN  Sum(holding)

\* C16: from the moment a refresh takes a channel's store until the matching
\* result hands it back, no other operation runs against that store: no
\* second refresh takes it, and the store left in the catalog is not changed
\* by anything but the handing back.
C16_ExclusiveCheckout ==
    [][\A c \in ChannelSet :
          C16_Holders(c) > 0 =>
             /\ C16_Holders(c)' <= C16_Holders(c)
             /\ C16_Holders(c)' = C16_Holders(c) => releases'[c] = releases[c]
      ]_vars

\* C17: in every reachable state a package identity appears at most once
\* across the five channel stores daily, branched, stable, lts and archived.
C17_CatalogUniqueness ==
    \A i, j \in 1..Len(Chain(releases)) :
        PkgEq(Chain(releases)[i], Chain(releases)[j]) => i = j

\* Two refreshes have been requested and both results handed back, and a
\* gated store holds the two builds of its line.
C17_RefreshedTwice ==
    /\ fault = "none"
    /\ presses = MaxPresses
    /\ fetches = EmptyBag
    /\ \E c \in GatedChannels :
          /\ Len(releases[c]) = 2
          /\ PkgEq(releases[c][1], Universe[c][1])
          /\ PkgEq(releases[c][2], Universe[c][2])

\* C20: when PackageRemoved(P) is handled, the default package is cleared
\* iff it equals P and is left as it was otherwise, nothing else of the
\* settings changes, and one availability probe for P with for_install =
\* false is issued.
C20_RemovedAndDefault ==
    [][\A m \in Pending("PackageRemoved") :
          Copies(m, commands') < Copies(m, commands) =>
             /\ settings'.default_package =
                   IF settings.default_package = m.package.name
                   THEN "none" ELSE settings.default_package
             /\ [settings' EXCEPT !.default_package = "none"] =
                   [settings EXCEPT !.default_package = "none"]
             /\ \A p \in BagToSet(probes) \cup BagToSet(probes') :
                   Copies(p, probes') =
                      Copies(p, probes)
                      + (IF ~p.for_install /\ PkgEq(p.package, m.package) THEN 1 ELSE 0)
             /\ \E p \in BagToSet(probes') : ~p.for_install /\ PkgEq(p.package, m.package)
      ]_vars

\* A package other than the default one has been uninstalled: the default
\* package is still set and installed, and the probe for the removed package
\* is in flight.
C20_DefaultKept ==
    /\ fault = "none"
    /\ Pending("PackageRemoved") = {}
    /\ settings.default_package # "none"
    /\ settings.default_package \in disk
    /\ \E p \in BagToSet(probes) :
          /\ ~p.for_install
          /\ p.package.name # settings.default_package
          /\ p.package.name \notin disk

\* The packages of every channel store, by name, store by store.
C21_StoreNames(r) == [c \in ChannelSet |-> Names(r[c])]

\* C21: a probe result is handled by its purpose.  The 'no longer available'
\* notice is raised iff the package is gone and the probe was made for an
\* install; a removal-driven probe that finds the package gone removes it
\* from its store and resyncs without a notice; a removal-driven probe that
\* finds it available leaves every store's packages as they are and only
\* resyncs; an install probe that finds it available forwards the package to
\* InstallPackage and does not sync.
C21_ProbeResultByPurpose ==
    [][/\ \A m \in Pending("CheckAvailability") :
             Copies(m, commands') < Copies(m, commands) =>
                LET channel == ChannelOf(m.package.build)
                    forwarded == Msg("InstallPackage", m.package)
                IN  /\ msgboxes' = IF ~m.available /\ m.for_install
                                   THEN msgboxes \cup {NoLongerAvailable(m.package)}
                                   ELSE msgboxes
                    /\ ~m.available =>
                          /\ ~Contains(releases'[channel], m.package)
                          /\ Len(releases'[channel]) = Len(releases[channel]) - 1
                          /\ \A c \in ChannelSet \ {channel} :
                                Names(releases'[c]) = Names(releases[c])
                          /\ releases' = Sync(releases')
                          /\ Copies(forwarded, commands') = Copies(forwarded, commands)
                    /\ (m.available /\ ~m.for_install) =>
                          /\ releases' = Sync(releases)
                          /\ C21_StoreNames(releases') = C21_StoreNames(releases)
                          /\ Copies(forwarded, commands') = Copies(forwarded, commands)
                    /\ (m.available /\ m.for_install) =>
                          /\ releases' = releases
                          /\ Copies(forwarded, commands') = Copies(forwarded, commands) + 1
       /\ (\E n \in msgboxes' \ msgboxes : n.notice = "no_longer_available") =>
             \E m \in Pending("CheckAvailability") :
                 /\ ~m.available /\ m.for_install
                 /\ Copies(m, commands') < Copies(m, commands)
      ]_vars

\* An installed package was uninstalled and its removal-driven probe found
\* it gone: the package has left its store and no notice was raised.
C21_RemovedSilently ==
    /\ fault = "none"
    /\ clicks = 0
    /\ presses > 0
    /\ commands = EmptyBag
    /\ probes = EmptyBag
    /\ msgboxes = {}
    /\ \E c \in ChannelSet :
          /\ remote[c] # <<>>
          /\ ~Contains(releases[c], Universe[c][1])
          /\ Universe[c][1].name \notin disk

\* The package named n has an entry in the in-flight install list.
C22_InFlight(n) == \E k \in 1..Len(installing) : installing[k].package.name = n

\* The package named n is in the catalog as Installed or Errored.
C22_Ended(n) ==
    \E q \in Range(Chain(releases)) : q.name = n /\ q.state.tag \in {"Installed", "Errored"}

\* C22: once a package is in the in-flight install list, under fair
\* scheduling its state eventually becomes Installed or Errored (here: or the
\* process has ended with a panic).
C22_InstallEnds ==
    \A n \in PackageNames : C22_InFlight(n) ~> (C22_Ended(n) \/ fault # "none")

\* The position after the digit run of s that starts at i.
RECURSIVE C23_RunEnd(_, _)
C23_RunEnd(s, i) == IF i <= Len(s) /\ IsDigit(s[i]) THEN C23_RunEnd(s, i + 1) ELSE i

\* The integer the digits s[i], .., s[e - 1] write.
RECURSIVE C23_Value(_, _, _)
C23_Value(s, i, e) ==
    IF e <= i THEN 0 ELSE 10 * C23_Value(s, i, e - 1) + ToDigit(s[e - 1])

\* Two digit runs compared digit by digit from the left, a proper prefix first.
RECURSIVE C23_LeftAligned(_, _, _, _, _, _)
C23_LeftAligned(l, i, ei, r, j, ej) ==
    IF i = ei /\ j = ej THEN "Equal"
    ELSE IF i = ei THEN "Less"
    ELSE IF j = ej THEN "Greater"
    ELSE IF ToDigit(l[i]) # ToDigit(r[j]) THEN Cmp(ToDigit(l[i]), ToDigit(r[j]))
    ELSE C23_LeftAligned(l, i + 1, ei, r, j + 1, ej)

\* The natural order of two strings from positions i0 and j0 on, run by run:
\* whitespace is skipped, letters compare without case, and two digit runs
\* compare as integers; with integers = FALSE a pair of runs of which one
\* begins with 0 compares digit by digit from the left instead.
RECURSIVE C23_Natural(_, _, _, _, _)
C23_Natural(l, r, i0, j0, integers) ==
    LET i == SkipWhitespace(l, i0)
        j == SkipWhitespace(r, j0)
    IN  IF i > Len(l) /\ j > Len(r) THEN "Equal"
        ELSE IF i > Len(l) THEN "Less"
        ELSE IF j > Len(r) THEN "Greater"
        ELSE IF IsDigit(l[i]) /\ IsDigit(r[j])
             THEN LET ei == C23_RunEnd(l, i)
                      ej == C23_RunEnd(r, j)
                      o == IF integers \/ (l[i] # "0" /\ r[j] # "0")
                           THEN Cmp(C23_Value(l, i, ei), C23_Value(r, j, ej))
                           ELSE C23_LeftAligned(l, i, ei, r, j, ej)
                  IN  IF o # "Equal" THEN o ELSE C23_Natural(l, r, ei, ej, integers)
        ELSE IF ToLowercase(l[i]) # ToLowercase(r[j])
             THEN Cmp(CodePoint[ToLowercase(l[i])], CodePoint[ToLowercase(r[j])])
        ELSE C23_Natural(l, r, i + 1, j + 1, integers)

\* Each Descending variant is the reverse of its Ascending variant, and the
\* package list is in the order of the chosen sorting.
C23_DescendingAndList ==
    /\ \A a, b \in Range(Chain(releases)) :
          /\ GetOrdering("NameDescending", a, b) = Reverse(GetOrdering("NameAscending", a, b))
          /\ GetOrdering("DateDescending", a, b) = Reverse(GetOrdering("DateAscending", a, b))
          /\ GetOrdering("VersionDescending", a, b) =
                Reverse(GetOrdering("VersionAscending", a, b))
          /\ GetOrdering("VersionDescending", a, b) = GetOrdering("VersionAscending", b, a)
    /\ LET list == SortedPackages(releases, sort_by)
       IN  /\ {list[k] : k \in 1..Len(list)} = Range(Enumerate(Chain(releases)))
           /\ Len(list) = Len(Chain(releases))
           /\ \A k \in 1..(Len(list) - 1) :
                 GetOrdering(sort_by, list[k].package, list[k + 1].package) # "Greater"

\* C23 as stated: VersionAscending orders two packages by the natural order
\* of their version strings with every pair of digit runs compared as
\* integers, so that "2.9" sorts before "2.90" and before "2.10"; every
\* Descending variant is the reverse of its Ascending variant.
C23_DigitRunsAsIntegers ==
    /\ \A a, b \in Range(Chain(releases)) :
          GetOrdering("VersionAscending", a, b) =
             C23_Natural(a.version, b.version, 1, 1, TRUE)
    /\ C23_DescendingAndList

\* C23, corrected: VersionAscending orders two packages by the natural order
\* of their version strings, two digit runs compared as integers when
\* neither begins with 0 and digit by digit from the left when one does (so
\* "2.09" sorts before "2.1"); "2.9" sorts before "2.90" and before "2.10";
\* every Descending variant is the reverse of its Ascending variant.
C23_VersionSorting ==
    /\ \A a, b \in Range(Chain(releases)) :
          GetOrdering("VersionAscending", a, b) =
             C23_Natural(a.version, b.version, 1, 1, FALSE)
    /\ NatCompare(<<"2", ".", "9">>, <<"2", ".", "9", "0">>) = "Less"
    /\ NatCompare(<<"2", ".", "9">>, <<"2", ".", "1", "0">>) = "Less"
    /\ C23_DescendingAndList

\* The user chose Version ascending; the store holds 2.10 in front of 2.9 and
\* the list shows 2.9 in front of 2.10.
C23_NineBeforeTen ==
    /\ sort_by = "VersionAscending"
    /\ releases.archived[1].version = <<"2", ".", "1", "0">>
    /\ releases.archived[2].version = <<"2", ".", "9">>
    /\ SortedPackages(releases, sort_by)[1].index = 1
    /\ SortedPackages(releases, sort_by)[2].index = 0

\* Keep-only-latest is disabled for the channel of the build; Archived has
\* no such setting.
C24_Disabled(build) ==
    \/ build.kind = "Daily" /\ ~settings.keep_only_latest_daily
    \/ build.kind = "Branched" /\ ~settings.keep_only_latest_branched
    \/ build.kind = "Stable" /\ ~settings.keep_only_latest_stable
    \/ build.kind = "Lts" /\ ~settings.keep_only_latest_lts
    \/ build.kind = "Archived"

\* C24: TryToInstall(P) issues the availability probe for P with for_install
\* = true, and raises no notice, whenever keep-only-latest is disabled for
\* P's channel, or P.status is Update, or no installed package has a build
\* equal to P.build (another Daily subtype or Branched branch does not count).
C24_GateRefusesOnlyWhenAll ==
    [][\A m \in Pending("TryToInstall") :
          (/\ Copies(m, commands') < Copies(m, commands)
           /\ \/ C24_Disabled(m.package.build)
              \/ m.package.status = "Update"
              \/ \A q \in Range(releases.installed) :
                    q.build.kind # m.package.build.kind \/ q.build.sub # m.package.build.sub)
          => /\ Copies(Probe(TRUE, m.package), probes') =
                   Copies(Probe(TRUE, m.package), probes) + 1
             /\ msgboxes' = msgboxes
      ]_vars

\* With keep-only-latest on for Daily and only a Daily build of another
\* subtype installed, the probe for a Daily package that is not an update has
\* been issued.
C24_OtherSubtypeInstalled ==
    /\ settings.keep_only_latest_daily
    /\ msgboxes = {}
    /\ \E q \in Range(releases.installed) : q.build = BuildDailyB
    /\ \A q \in Range(releases.installed) : q.build # BuildDailyA
    /\ \E pr \in BagToSet(probes) :
          /\ pr.for_install
          /\ pr.package.build = BuildDailyA
          /\ pr.package.status # "Update"

\* C25: no result handler fails to find the package it refers to: the lookup
\* of the CheckAvailability removal branch and of InstallPackage finds the
\* package in a channel store and the lookup of PackageInstalled finds an
\* entry of the in-flight list, so the process never ends with the panic of
\* an unwrap on a lookup that found nothing.
C25_LookupsSucceed == fault # "called Option::unwrap() on a None value"

\* C26: for every entry (P, i) of the in-flight install list the chained
\* stores daily ++ branched ++ stable ++ lts ++ archived have more than i
\* elements, so no PackageMessage(i, ..) is dispatched out of bounds.
C26_IndexInBounds ==
    /\ \A k \in 1..Len(installing) : installing[k].index < Len(Chain(releases))
    /\ fault # "Index out of bounds"

\* C27: once the attempt for P has ended, with FinishedInstalling (and its
\* PackageInstalled message handled) or with Errored, P has no entry left in
\* the in-flight install list.
C27_EndedHasNoEntry ==
    \A n \in PackageNames :
        (/\ pipelines[n].ev \in {"FinishedInstalling", "Errored"}
         /\ Pending("PackageInstalled") = {}
         /\ fault = "none")
        => \A k \in 1..Len(installing) : installing[k].package.name # n

\* C28: a refresh never loses known packages: with no install requested, once
\* every refresh result has been handled, the package each listed channel's
\* store held at startup is still in that store, with the lifecycle state it
\* had (Installed when its installation is on disk, else Fetched).
C28_RefreshKeepsPackages ==
    (fault = "none" /\ clicks = 0 /\ fetches = EmptyBag) =>
        \A c \in ChannelSet :
            remote[c] # <<>> =>
                \E q \in Range(releases[c]) :
                    /\ PkgEq(q, remote[c][1])
                    /\ q.state = IF remote[c][1].name \in disk THEN Installed ELSE Fetched

\* The default package, when set, is a package of the installed registry.
C29_Valid(s, r) ==
    s.default_package = "none" \/ \E q \in Range(r.installed) : q.name = s.default_package

\* C29: the default package, when set, is in the installed registry after
\* startup and after the handler that completes an install (with its
\* revalidation, pruning and sync), a sync after a probe result, or an
\* uninstall: PackageRemoved(P) leaves no default equal to P and keeps a
\* valid default valid.
C29_DefaultValidity ==
    [][/\ (clicks = 0 /\ presses = 0) => C29_Valid(settings, releases)
       /\ \A m \in Pending("PackageInstalled") :
             Copies(m, commands') < Copies(m, commands) => C29_Valid(settings', releases')
       /\ \A m \in Pending("CheckAvailability") :
             (Copies(m, commands') < Copies(m, commands) /\ ~(m.available /\ m.for_install))
                => C29_Valid(settings', releases')
       /\ \A m \in Pending("PackageRemoved") :
             Copies(m, commands') < Copies(m, commands) =>
                /\ settings'.default_package # m.package.name
                /\ C29_Valid(settings, releases) => C29_Valid(settings', releases')
      ]_vars

\* An installed build, which the settings file may name as the default, was
\* superseded by a newer install of its line and pruned, and no default
\* package is set.
C29_PrunedDefaultCleared ==
    /\ fault = "none"
    /\ presses = 0
    /\ clicks > 0
    /\ calls = PackageInstalledCalls
    /\ settings.default_package = "none"
    /\ \E c \in GatedChannels :
          /\ KeepOnlyLatest(settings, Universe[c][1].build)
          /\ Universe[c][1].name \notin disk
          /\ Universe[c][2].name \in disk

\* C30: while keep-only-latest is enabled for a channel, in every state with
\* no install in flight the installed registry holds at most one package per
\* build identity of that channel, whatever installs were requested and
\* however they overlapped.
C30_KeepOnlyLatestInvariant ==
    (fault = "none" /\ installing = <<>>) =>
        \A p, q \in Range(releases.installed) :
            (KeepOnlyLatest(settings, p.build) /\ p.build = q.build) => PkgEq(p, q)

\* Both builds of a line were requested while neither had finished, both
\* installs completed, and with keep-only-latest on the registry holds the
\* newer build alone: the older one shows as Installed in its store and has
\* been pruned.
C30_BothInstalledOneKept ==
    /\ fault = "none"
    /\ installing = <<>>
    /\ clicks = MaxClicks
    /\ \E c \in GatedChannels :
          /\ KeepOnlyLatest(settings, Universe[c][1].build)
          /\ \E q \in Range(releases[c]) :
                q.name = Universe[c][1].name /\ q.state.tag = "Installed"
          /\ Universe[c][1].name \notin disk
          /\ Universe[c][2].name \in disk
          /\ \A q \in Range(releases.installed) :
                q.build = Universe[c][1].build => q.name = Universe[c][2].name
          /\ \E q \in Range(releases.installed) : q.name = Universe[c][2].name

\* A store without its status tags.
C31_Untagged(store) == [i \in 1..Len(store) |-> [store[i] EXCEPT !.status = "Old"]]

\* The step is Message::CheckForUpdates creating the future f.
C31_Requested(f) ==
    f.kind = "updates" /\ ~f.done /\ Copies(f, fetches') > Copies(f, fetches)

\* The step is Message::UpdatesChecked consuming the result f.
C31_Handled(f) ==
    f.kind = "updates" /\ f.done /\ Copies(f, fetches') < Copies(f, fetches)

\* C31: CheckForUpdates takes the daily, branched, stable and lts stores out
\* of the catalog and leaves the archived store and the installed registry as
\* they were; UpdatesChecked merges the four returned stores into the
\* catalog's and syncs, and the archived store holds the packages it held, in
\* the same order and lifecycle states, and the registry is as it was.
C31_UpdatesTouchFourChannels ==
    [][/\ \A f \in BagToSet(fetches') :
             C31_Requested(f) =>
                /\ \A c \in GatedChannels : f.stores[c] = releases[c] /\ releases'[c] = <<>>
                /\ f.stores.archived = <<>>
                /\ releases'.archived = releases.archived
                /\ releases'.installed = releases.installed
       /\ \A f \in BagToSet(fetches) :
             C31_Handled(f) =>
                /\ \A c \in GatedChannels :
                      /\ \A q \in Range(releases[c]) \cup Range(f.stores[c]) :
                            \E x \in Range(releases'[c]) : PkgEq(x, q)
                      /\ \A x \in Range(releases'[c]) :
                            \E q \in Range(releases[c]) \cup Range(f.stores[c]) : PkgEq(x, q)
                /\ releases' = Sync(releases')
                /\ C31_Untagged(releases'.archived) = C31_Untagged(releases.archived)
                /\ releases'.installed = releases.installed
      ]_vars

\* A check for updates is out with a gated store it took, a merged result
\* was handed back in the meantime, and the archived store and the registry
\* hold what they held at startup.
C31_UpdatesOut ==
    /\ fault = "none"
    /\ clicks = 0
    /\ presses = MaxPresses
    /\ \E f \in BagToSet(fetches) :
          /\ fetches = SetToBag({f})
          /\ f.kind = "updates"
          /\ \E c \in GatedChannels : f.stores[c] # <<>> /\ Len(releases[c]) = 2
    /\ releases.archived # <<>>
    /\ releases.installed # <<>>
    /\ releases.installed = InstalledFetch(disk)

\* The clones of packages held outside the stores: the arguments of the
\* messages and probes in flight and the entries of the in-flight list.
C32_Clones ==
    {m.package : m \in BagToSet(commands)}
        \cup {pr.package : pr \in BagToSet(probes)}
        \cup {installing[k].package : k \in 1..Len(installing)}

\* C32: package equality ignores lifecycle state and status.  A clone taken
\* of P (a message or probe argument, an in-flight entry) compares equal to P
\* in its store and to every other clone of P, whatever state and status
\* each of them carries, so the lookup of a clone in the chained stores finds
\* P wherever P is in a store, and the lookup of the PackageInstalled
\* argument in the in-flight list finds P's entry wherever there is one.
C32_EqualityIgnoresState ==
    \A c \in C32_Clones :
        /\ \A q \in Range(Chain(releases)) \cup C32_Clones :
              q.name = c.name => PkgEq(c, q)
        /\ (\E q \in Range(Chain(releases)) : q.name = c.name) =>
              /\ Position(Chain(releases), c) # 0
              /\ Chain(releases)[Position(Chain(releases), c)].name = c.name
        /\ (\E k \in 1..Len(installing) : installing[k].package.name = c.name) =>
              /\ InstallingPosition(installing, c) # 0
              /\ installing[InstallingPosition(installing, c)].package.name = c.name

\* P's in-flight entry is the clone taken while P was Fetched, P is
\* Installed in its store and has been re-tagged since the clone was taken,
\* and the PackageInstalled message carrying the Installed clone is waiting.
C32_FetchedCloneOfInstalled ==
    /\ fault = "none"
    /\ \E k \in 1..Len(installing), m \in Pending("PackageInstalled") :
          /\ installing[k].package.state = Fetched
          /\ m.package.name = installing[k].package.name
          /\ m.package.state = Installed
          /\ \E q \in Range(Chain(releases)) :
                /\ q.name = m.package.name
                /\ q.state = Installed
                /\ q.status # installing[k].package.status

\* The five channel flags of the filters are all set.
C33_AllChannels(f) == f.daily /\ f.branched /\ f.stable /\ f.lts /\ f.archived

\* The step is a channel-filter message: FilterAllChanged or one of the five
\* Filter<Channel>Changed.
C33_ChannelFilterStep ==
    \/ \E b \in BOOLEAN : FilterAllChanged(b)
    \/ \E c \in ChannelSet, b \in BOOLEAN : FilterChannelChanged(c, b)

\* C33: starting from the default filters the 'all' flag is set iff the
\* daily, branched, stable, lts and archived flags are all set;
\* FilterAllChanged(b) sets 'all' and the five channel flags to b, a
\* Filter<Channel>Changed(b) sets that channel's flag to b and leaves the
\* other four, and no channel-filter message changes the updates or the
\* installed flag.
C33_AllFlagInvariant ==
    /\ [](filters.all <=> C33_AllChannels(filters))
    /\ [][/\ \A b \in BOOLEAN :
                FilterAllChanged(b) =>
                   /\ filters'.all = b
                   /\ \A c \in ChannelSet : filters'[c] = b
          /\ \A c \in ChannelSet, b \in BOOLEAN :
                FilterChannelChanged(c, b) =>
                   /\ filters'[c] = b
                   /\ \A o \in ChannelSet \ {c} : filters'[o] = filters[o]
          /\ C33_ChannelFilterStep =>
                /\ filters'.updates = filters.updates
                /\ filters'.installed = filters.installed
         ]_vars

\* One channel flag has been cleared and another is set, 'all' is clear, and
\* the updates filter is on.
C33_OneChannelOff ==
    /\ ~filters.daily
    /\ filters.branched
    /\ ~filters.all
    /\ filters.updates

\* C34: starting from the default filters, the updates and installed
\* filters are never both on; enabling one disables the other, disabling one
\* leaves the other as it was, and neither message changes a channel flag or
\* the 'all' flag.
C34_UpdatesInstalledExclusive ==
    /\ [](~(filters.updates /\ filters.installed))
    /\ [][/\ FilterUpdatesChanged(TRUE) => (filters'.updates /\ ~filters'.installed)
          /\ FilterUpdatesChanged(FALSE) =>
                (~filters'.updates /\ filters'.installed = filters.installed)
          /\ FilterInstalledChanged(TRUE) => (filters'.installed /\ ~filters'.updates)
          /\ FilterInstalledChanged(FALSE) =>
                (~filters'.installed /\ filters'.updates = filters.updates)
          /\ ((\E b \in BOOLEAN : FilterUpdatesChanged(b) \/ FilterInstalledChanged(b)) =>
                /\ filters'.all = filters.all
                /\ \A c \in ChannelSet : filters'[c] = filters[c])
         ]_vars

\* The installed filter is on, the updates filter is off, and a channel
\* flag is clear.
C34_InstalledOn ==
    /\ filters.installed
    /\ ~filters.updates
    /\ ~filters.stable
    /\ ~filters.all

\* C35: a package is listed iff the filter flag of its own channel is set
\* and, with the updates filter on, its status is Update; otherwise, with the
\* installed filter on, its state is Installed; otherwise with no further
\* condition.  The updates filter is looked at before the installed one.
C35_Matches ==
    \A package \in Range(Chain(releases)) :
        Matches(filters, package) <=>
            /\ filters[ChannelOf(package.build)]
            /\ IF filters.updates THEN package.status = "Update"
               ELSE IF filters.installed THEN package.state = Installed
               ELSE TRUE

\* Both the updates and the installed filter are on, every channel is shown,
\* and the list holds the package tagged Update and not the Installed one.
C35_UpdatesBeforeInstalled ==
    /\ filters.updates
    /\ filters.installed
    /\ C33_AllChannels(filters)
    /\ \E package \in Range(Chain(releases)) :
          package.state = Installed /\ package.status # "Update"
              /\ package \notin Range(FilteredPackages(releases, filters))
    /\ \E package \in Range(Chain(releases)) :
          package.state # Installed /\ package.status = "Update"
              /\ package \in Range(FilteredPackages(releases, filters))

====
